---- MODULE Spec2Model ----
(***************************************************************************)
(* Model of the leak signal evaluator (scripts/leak_signals_v1.py) of      *)
(* he-revenue-leaks.                                                       *)
(*                                                                         *)
(* A DataFrame is a record [cols, rows]: the set of its column names and   *)
(* the sequence of its rows, each row a record over cols.  pd.DataFrame()  *)
(* is the frame without columns and rows.                                  *)
(*                                                                         *)
(* Timestamps are counted in days.  A timestamp cell is a record [k, d]:   *)
(* k = "text" for the text of day d as the loader returns it, "junk" for   *)
(* text that is no timestamp, "ts" for a parsed datetime, "NaT" for the    *)
(* missing datetime.                                                       *)
(*                                                                         *)
(* A monetary cell is a record [k, v]: k = "num" for the amount of v       *)
(* thousandths of a dollar, "text" for a non-numeric token such as "abc".  *)
(* Sums of cells are counted in thousandths too.  Derived quantities are   *)
(* exact rationals <<n, d>> of dollars with d > 0 in lowest terms (the     *)
(* code uses binary floats; the model does not reproduce their             *)
(* representation error).  Rounded amounts are integer cents, rounded      *)
(* confidences integer hundredths.                                         *)
(***************************************************************************)
EXTENDS Integers, Sequences, FiniteSets, TLC

VARIABLES
    tables,   \* the six DataFrames the caller holds and passes to evaluate
    loaded,   \* the six DataFrames as the loader returned them
    pc,       \* "load": the caller is still loading tables; "run": evaluate was called
    results,  \* what each call of evaluate returned or raised, in call order
    ev,       \* the locals of the latest call of evaluate
    trace,    \* the latest direct calls of _severity and _confidence, oldest first
    runs,     \* the run log file of each tenant: the entries appended, in file order
    resp,     \* what the API answered to the latest request
    flights,  \* the run requests the worker threads are handling, and their locals
    hits,     \* main._hits: for each X-API-Key the times of its admitted requests
    admitted, \* for each X-API-Key the times of all its /api requests passed on
    req,      \* the latest request: how many came before it, its path and its key
    now,      \* the time the server's clock shows
    env,      \* the environment variables the server reads
    cursor,   \* the Stripe cursor file of each tenant: entity -> created
    health,   \* the Stripe health file of each tenant
    syncs     \* the calls of StripeConnector.sync under way, and their locals

\* the state of the server around the routes
serverVars == <<flights, hits, admitted, req, now, env, cursor, health, syncs>>

vars == <<tables, loaded, pc, results, ev, trace, runs, resp, serverVars>>

(***************************************************************************)
(* Bounds of the model.                                                    *)
(***************************************************************************)
MaxRows == 2     \* rows over the six tables together
MaxDrops == 1    \* columns missing from the loaded tables
MaxCalls == 2    \* calls of evaluate on the same tables

(***************************************************************************)
(* Program constants.                                                      *)
(***************************************************************************)
WindowDays == 28
BaselineDays == 112
DisputeFee == 15
TopSkus == 5

TableNames == {"orders", "order_lines", "refunds", "payments", "tickets", "discounts"}

\* the tenants that send requests; the files of a tenant are kept under
\* data/<tenant>/, so the id of the second is also a directory of every path
Tenants == {"acme", "data"}

NoResponse == [status |-> "none"]

(***************************************************************************)
(* The server around the routes, before any request.                       *)
(***************************************************************************)
MaxFlights == 2  \* run requests the worker threads handle at a time
MaxSyncs == 2    \* sync requests the server receives

\* the worker threads that handle run requests, and those that handle syncs
Flights == 1..MaxFlights
SyncCalls == {"thread1", "thread2"}

\* the X-API-Key values requests carry; "" is a request without the header
ApiKeys == {"", "key1", "key2"}

\* the entities a Stripe sync fetches
Entities == <<"charges", "customers">>

\* no environment variable is set
NoEnv == [HE_API_KEY |-> "", HE_API_KEYS_JSON |-> [kind |-> "unset"],
          HE_ALLOW_NO_AUTH |-> "0", HE_RATE_LIMIT_PER_MIN |-> 120,
          STRIPE_API_KEY |-> ""]

\* a file that does not exist
NoFile == [exists |-> FALSE]

ServerIdle ==
    /\ flights = [r \in Flights |-> [pc |-> "idle"]]
    /\ hits = [k \in ApiKeys |-> <<>>]
    /\ admitted = [k \in ApiKeys |-> <<>>]
    /\ req = [n |-> 0]
    /\ now = 0
    /\ cursor = [t \in Tenants |-> NoFile]
    /\ health = [t \in Tenants |-> NoFile]
    /\ syncs = [c \in SyncCalls |-> [pc |-> "idle"]]

(***************************************************************************)
(* Cells.                                                                  *)
(***************************************************************************)
TsText(d) == [k |-> "text", d |-> d]
TsJunk == [k |-> "junk", d |-> 0]
Ts(d) == [k |-> "ts", d |-> d]
NaT == [k |-> "NaT", d |-> 0]
Num(v) == [k |-> "num", v |-> v]
Text == [k |-> "text", v |-> 0]

EmptyFrame == [cols |-> {}, rows |-> <<>>]

\* DataFrame.empty: no rows or no columns
IsEmpty(df) == df.cols = {} \/ Len(df.rows) = 0

SeqRange(s) == {s[i] : i \in 1..Len(s)}

(***************************************************************************)
(* Exact rational arithmetic standing for the code's float arithmetic.     *)
(***************************************************************************)
Abs(x) == IF x < 0 THEN -x ELSE x

RECURSIVE Gcd(_, _)
Gcd(a, b) == IF b = 0 THEN a ELSE Gcd(b, a % b)

\* n/d in lowest terms with a positive denominator (d # 0)
Frac(n, d) ==
    LET g == Gcd(Abs(n), Abs(d))
        s == IF d < 0 THEN -1 ELSE 1
    IN  <<(s * n) \div g, (s * d) \div g>>

Q(n) == <<n, 1>>

\* a sum of cells, in dollars
Dollars(m) == Frac(m, 1000)
\* sums, products and comparisons cancel common factors before they multiply
QAdd(a, b) ==
    LET g == Gcd(a[2], b[2])
    IN  Frac(a[1] * (b[2] \div g) + b[1] * (a[2] \div g), (a[2] \div g) * b[2])
QNeg(a) == <<-a[1], a[2]>>
QSub(a, b) == QAdd(a, QNeg(b))
QMul(a, b) ==
    LET g1 == Gcd(Abs(a[1]), b[2])
        g2 == Gcd(Abs(b[1]), a[2])
    IN  Frac((a[1] \div g1) * (b[1] \div g2), (a[2] \div g2) * (b[2] \div g1))
QLt(a, b) ==
    LET g == Gcd(a[2], b[2])
    IN  a[1] * (b[2] \div g) < b[1] * (a[2] \div g)
QLe(a, b) == ~QLt(b, a)
QMax(a, b) == IF QLt(a, b) THEN b ELSE a
QMin(a, b) == IF QLt(b, a) THEN b ELSE a

\* round(x, 2) as an integer count of hundredths, ties to the even neighbour
Round2(x) ==
    LET n == 100 * x[1]
        f == n \div x[2]
        r == n % x[2]
    IN  IF 2 * r < x[2] THEN f
        ELSE IF 2 * r > x[2] THEN f + 1
        ELSE IF f % 2 = 0 THEN f ELSE f + 1

\* a count of hundredths as a number
Cents(c) == Frac(c, 100)

\* _safe_div: a / b, and 0.0 when b is 0
SafeDiv(a, b) == IF b[1] = 0 THEN Q(0) ELSE QMul(a, Frac(b[2], b[1]))

\* Severity as it would be without the floor of 1 under the revenue
SeverityNoFloor(loss, revenue_window) ==
    LET ratio == SafeDiv(loss, revenue_window)
    IN  IF QLe(<<2, 25>>, ratio) \/ QLe(Q(10000), loss) THEN "high"
        ELSE IF QLe(<<3, 100>>, ratio) \/ QLe(Q(2500), loss) THEN "medium"
        ELSE "low"

\* _severity
Severity(loss, revenue_window) ==
    LET ratio == SafeDiv(loss, QMax(revenue_window, Q(1)))
    IN  IF QLe(<<2, 25>>, ratio) \/ QLe(Q(10000), loss) THEN "high"
        ELSE IF QLe(<<3, 100>>, ratio) \/ QLe(Q(2500), loss) THEN "medium"
        ELSE "low"

\* Confidence as it would be without the lower clamp
ConfidenceNoFloor(sample_size, completeness) ==
    LET sample_score == QMin(Q(1), QAdd(SafeDiv(Q(sample_size), Q(1000)), <<1, 5>>))
    IN  Round2(QMin(Q(1), QAdd(QMul(<<3, 5>>, completeness),
                               QMul(<<2, 5>>, sample_score))))

\* _confidence (every call site passes the default completeness 1.0)
Confidence(sample_size, completeness) ==
    LET sample_score == QMin(Q(1), QAdd(SafeDiv(Q(sample_size), Q(1000)), <<1, 5>>))
    IN  Round2(QMax(<<1, 10>>,
                    QMin(Q(1), QAdd(QMul(<<3, 5>>, completeness),
                                    QMul(<<2, 5>>, sample_score)))))

(***************************************************************************)
(* DataFrame operations used by evaluate.                                  *)
(***************************************************************************)
\* pd.to_datetime(errors="coerce", utc=True) on one cell
ToDatetime(c) ==
    IF c.k = "text" THEN Ts(c.d)
    ELSE IF c.k = "ts" THEN c
    ELSE NaT

\* _to_dt: rewrites the column of the frame it was given
ToDt(df, col) ==
    IF col \in df.cols /\ ~IsEmpty(df)
    THEN [df EXCEPT !.rows = [i \in 1..Len(df.rows) |->
                                [df.rows[i] EXCEPT ![col] = ToDatetime(df.rows[i][col])]]]
    ELSE df

SetMax(S) == CHOOSE x \in S : \A y \in S : y <= x

\* df[col].max(): the latest datetime of the column, NaT when it has none
ColMax(df, col) ==
    LET ds == {df.rows[i][col].d : i \in {j \in 1..Len(df.rows) : df.rows[j][col].k = "ts"}}
    IN  IF ds = {} THEN NaT ELSE Ts(SetMax(ds))

\* str(timestamp)
TsStr(d) == TsText(d)

\* InRange as it would be with the upper bound included
InRangeClosed(c, lo, hi) == c.k = "ts" /\ lo <= c.d /\ c.d <= hi

\* ts >= lo and ts < hi on one cell; a comparison with NaT is False
InRange(c, lo, hi) == c.k = "ts" /\ lo <= c.d /\ c.d < hi

\* df[(df[col] >= lo) & (df[col] < hi)] if col in df else pd.DataFrame()
Slice(df, col, lo, hi) ==
    IF col \in df.cols
    THEN [df EXCEPT !.rows = SelectSeq(df.rows, LAMBDA r : InRange(r[col], lo, hi))]
    ELSE EmptyFrame

\* what a step of evaluate yields: a value, or the exception it raises
Ok(v) == [err |-> "none", v |-> v]
Raise(e) == [err |-> e, v |-> 0]

\* float(df.get(col, pd.Series(dtype=float)).sum()): numbers add up; a column of
\* text alone is concatenated by sum() and float() rejects the result; text
\* among numbers cannot be added
ColSum(df, col) ==
    IF col \notin df.cols THEN Ok(0)
    ELSE LET n == Len(df.rows)
             texts == {i \in 1..n : df.rows[i][col].k = "text"}
             F[i \in 0..n] == IF i = 0 THEN 0 ELSE F[i - 1] + df.rows[i][col].v
         IN  IF texts = {} THEN Ok(F[n])
             ELSE IF Cardinality(texts) = n THEN Raise("ValueError")
             ELSE Raise("TypeError")

\* df[df.get("status", pd.Series(dtype=str)).eq(value)] if not df.empty else
\* pd.DataFrame(): without the column the mask is an empty Series that cannot
\* be aligned with the rows
StatusRows(df, value) ==
    IF IsEmpty(df) THEN Ok(EmptyFrame)
    ELSE IF "status" \notin df.cols THEN Raise("IndexingError")
    ELSE Ok([df EXCEPT !.rows = SelectSeq(df.rows, LAMBDA r : r.status = value)])

\* the sum of a numeric column over all rows
NumSum(rows, col) ==
    LET F[i \in 0..Len(rows)] == IF i = 0 THEN 0 ELSE F[i - 1] + rows[i][col].v
    IN  F[Len(rows)]

\* order_lines.merge(rw[["order_id", "refund_amount"]], on="order_id", how="inner"):
\* one row per pair of an order line and a refund of the same order
RECURSIVE MergeRows(_, _, _)
MergeRows(lines, refs, mcols) ==
    IF Len(lines) = 0 THEN <<>>
    ELSE LET l == Head(lines)
             found == SelectSeq(refs, LAMBDA r : r.order_id = l.order_id)
         IN  [i \in 1..Len(found) |->
                 [c \in mcols |-> IF c = "refund_amount" THEN found[i].refund_amount ELSE l[c]]]
             \o MergeRows(Tail(lines), refs, mcols)

Merge(lines, refs) ==
    LET mcols == lines.cols \cup {"refund_amount"}
    IN  [cols |-> mcols, rows |-> MergeRows(lines.rows, refs.rows, mcols)]

\* series.sort_values(ascending=False).head(k).sum() of the series f over keys
RECURSIVE TopSum(_, _, _)
TopSum(keys, f, k) ==
    IF k = 0 \/ keys = {} THEN 0
    ELSE LET m == CHOOSE x \in keys : \A y \in keys : f[y] <= f[x]
         IN  f[m] + TopSum(keys \ {m}, f, k - 1)

\* df.groupby(col): the rows of each key
GroupRows(df, col, key) == SelectSeq(df.rows, LAMBDA r : r[col] = key)
GroupKeys(df, col) == {df.rows[i][col] : i \in 1..Len(df.rows)}

(***************************************************************************)
(* evaluate, in the order of its statements.                               *)
(***************************************************************************)
\* the four _to_dt calls
Converted(T) ==
    [T EXCEPT !.orders = ToDt(T.orders, "order_ts"),
              !.refunds = ToDt(T.refunds, "refund_ts"),
              !.payments = ToDt(T.payments, "payment_ts"),
              !.tickets = ToDt(T.tickets, "created_ts")]

AnchorSources == {<<"orders", "order_ts">>, <<"refunds", "refund_ts">>,
                  <<"payments", "payment_ts">>}

\* the candidates list: the latest datetime of each source that has one
Candidates(T) ==
    {ColMax(T[p[1]], p[2]).d :
        p \in {q \in AnchorSources : /\ ~IsEmpty(T[q[1]])
                                     /\ q[2] \in T[q[1]].cols
                                     /\ ColMax(T[q[1]], q[2]).k = "ts"}}

\* Anchor as it would be if the fallback to the current instant worked
AnchorNow(T, clock) ==
    IF Candidates(T) = {} THEN Ok(clock) ELSE Ok(SetMax(Candidates(T)))

\* the anchor: without a candidate the code takes pd.Timestamp.utcnow(), which
\* already carries the UTC zone, and tz_localize("UTC") rejects it
Anchor(T, clock) ==
    IF Candidates(T) = {} THEN Raise("TypeError") ELSE Ok(SetMax(Candidates(T)))

\* the window and baseline bounds and the eight slices
Slices(T, anchor) ==
    LET w_start == anchor - WindowDays
        b_start == anchor - BaselineDays
        b_end == w_start
    IN  [anchor |-> anchor, w_start |-> w_start, b_start |-> b_start, b_end |-> b_end,
         ow |-> Slice(T.orders, "order_ts", w_start, anchor),
         ob |-> Slice(T.orders, "order_ts", b_start, b_end),
         rw |-> Slice(T.refunds, "refund_ts", w_start, anchor),
         rb |-> Slice(T.refunds, "refund_ts", b_start, b_end),
         pw |-> Slice(T.payments, "payment_ts", w_start, anchor),
         pb |-> Slice(T.payments, "payment_ts", b_start, b_end),
         tw |-> Slice(T.tickets, "created_ts", w_start, anchor),
         tb |-> Slice(T.tickets, "created_ts", b_start, b_end)]

\* SkuLoss as it would be without head(5)
SkuLossAllSkus(order_lines, rw) ==
    IF /\ ~IsEmpty(order_lines) /\ ~IsEmpty(rw)
       /\ "order_id" \in order_lines.cols /\ "order_id" \in rw.cols
    THEN IF "refund_amount" \notin rw.cols THEN Raise("KeyError")
         ELSE LET merged == Merge(order_lines, rw)
              IN  IF "sku_id" \in merged.cols
                  THEN Ok(NumSum(merged.rows, "refund_amount"))
                  ELSE Ok(0)
    ELSE Ok(0)

\* loss2 before rounding: the refunds of the five SKUs refunded most
SkuLoss(order_lines, rw) ==
    IF /\ ~IsEmpty(order_lines) /\ ~IsEmpty(rw)
       /\ "order_id" \in order_lines.cols /\ "order_id" \in rw.cols
    THEN IF "refund_amount" \notin rw.cols THEN Raise("KeyError")
         ELSE LET merged == Merge(order_lines, rw)
                  keys == GroupKeys(merged, "sku_id")
                  grp == [k \in keys |->
                             NumSum(GroupRows(merged, "sku_id", k), "refund_amount")]
              IN  IF "sku_id" \in merged.cols THEN Ok(TopSum(keys, grp, TopSkus))
                  ELSE Ok(0)
    ELSE Ok(0)

\* loss4 before rounding: the discounts of the codes used more than 3 times per
\* customer (discount_value is numeric in the modelled tables)
CouponLoss(discounts) ==
    IF ~IsEmpty(discounts) /\ {"coupon_code", "customer_id", "discount_value"} \subseteq discounts.cols
    THEN LET keys == GroupKeys(discounts, "coupon_code")
             uses(k) == Len(GroupRows(discounts, "coupon_code", k))
             users(k) == Cardinality({r.customer_id :
                                        r \in SeqRange(GroupRows(discounts, "coupon_code", k))})
             val(k) == NumSum(GroupRows(discounts, "coupon_code", k), "discount_value")
             abusive == {k \in keys :
                           uses(k) > 3 * (IF users(k) < 1 THEN 1 ELSE users(k))}
             G[S \in SUBSET abusive] ==
                 IF S = {} THEN 0
                 ELSE LET k == CHOOSE x \in S : TRUE IN val(k) + G[S \ {k}]
         IN  Ok(G[abusive])
    ELSE Ok(0)

\* the steps of lines 107-176 that can raise, each with what it yields
Steps(T, sl) ==
    LET failed_w == StatusRows(sl.pw, "failed")
        disp_w == StatusRows(sl.pw, "disputed")
        frame(s) == IF s.err = "none" THEN s.v ELSE EmptyFrame
    IN  [net_w |-> ColSum(sl.ow, "net_revenue"),
         net_b |-> ColSum(sl.ob, "net_revenue"),
         gross_w |-> ColSum(sl.ow, "gross_revenue"),
         refund_w |-> ColSum(sl.rw, "refund_amount"),
         refund_b |-> ColSum(sl.rb, "refund_amount"),
         discount_w |-> ColSum(sl.ow, "discount_amount"),
         discount_b |-> ColSum(sl.ob, "discount_amount"),
         gross_b |-> ColSum(sl.ob, "gross_revenue"),
         shipping_w |-> ColSum(sl.ow, "shipping_cost"),
         shipping_b |-> ColSum(sl.ob, "shipping_cost"),
         failed_w |-> failed_w,
         failed_b |-> StatusRows(sl.pb, "failed"),
         cogs_w |-> ColSum(sl.ow, "cogs_total"),
         cogs_b |-> ColSum(sl.ob, "cogs_total"),
         loss2 |-> SkuLoss(T.order_lines, sl.rw),
         loss4 |-> CouponLoss(T.discounts),
         failed_amount_w |-> IF IsEmpty(frame(failed_w)) THEN Ok(0)
                             ELSE ColSum(frame(failed_w), "amount"),
         disp_w |-> disp_w,
         disp_b |-> StatusRows(sl.pb, "disputed"),
         dispute_amount_w |-> ColSum(frame(disp_w), "dispute_amount")]

StepOrder == <<"net_w", "net_b", "gross_w", "refund_w", "refund_b", "discount_w",
               "discount_b", "gross_b", "shipping_w", "shipping_b", "failed_w",
               "failed_b", "cogs_w", "cogs_b", "loss2", "loss4", "failed_amount_w",
               "disp_w", "disp_b", "dispute_amount_w">>

\* the exception of the first step that raises, "none" when none does
FirstErr(st) ==
    LET bad == {i \in 1..Len(StepOrder) : st[StepOrder[i]].err # "none"}
    IN  IF bad = {} THEN "none"
        ELSE st[StepOrder[CHOOSE i \in bad : \A j \in bad : i <= j]].err

Distinct(df, col) == Cardinality({df.rows[i][col] : i \in 1..Len(df.rows)})

\* the scalars of lines 107-134 and the raw losses, once no step has raised
Scalars(T, sl, st) ==
    LET net_w == Dollars(st.net_w.v)
        net_b == Dollars(st.net_b.v)
        gross_w == Dollars(st.gross_w.v)
        refund_w == Dollars(st.refund_w.v)
        refund_b == Dollars(st.refund_b.v)
        shipping_w == Dollars(st.shipping_w.v)
        shipping_b == Dollars(st.shipping_b.v)
        cogs_w == Dollars(st.cogs_w.v)
        cogs_b == Dollars(st.cogs_b.v)
        n_ow == Len(sl.ow.rows)
        churn == "customer_id" \in sl.ow.cols /\ "customer_id" \in sl.ob.cols
    IN  [net_w |-> net_w, net_b |-> net_b, gross_w |-> gross_w,
         refund_w |-> refund_w, refund_b |-> refund_b,
         refund_rate_w |-> SafeDiv(refund_w, net_w),
         refund_rate_b |-> SafeDiv(refund_b, net_b),
         discount_rate_w |-> SafeDiv(Dollars(st.discount_w.v), gross_w),
         discount_rate_b |-> SafeDiv(Dollars(st.discount_b.v), Dollars(st.gross_b.v)),
         shipping_w |-> shipping_w,
         shipping_ratio_w |-> SafeDiv(shipping_w, net_w),
         shipping_ratio_b |-> SafeDiv(shipping_b, net_b),
         fail_rate_w |-> SafeDiv(Q(Len(st.failed_w.v.rows)), Q(Len(sl.pw.rows))),
         fail_rate_b |-> SafeDiv(Q(Len(st.failed_b.v.rows)), Q(Len(sl.pb.rows))),
         margin_w |-> SafeDiv(QSub(QSub(net_w, cogs_w), shipping_w), net_w),
         margin_b |-> SafeDiv(QSub(QSub(net_b, cogs_b), shipping_b), net_b),
         loss2 |-> Dollars(st.loss2.v),
         loss4 |-> Dollars(st.loss4.v),
         failed_amount_w |-> Dollars(st.failed_amount_w.v),
         dispute_amount_w |-> Dollars(st.dispute_amount_w.v),
         disp_w |-> Len(st.disp_w.v.rows), disp_b |-> Len(st.disp_b.v.rows),
         tickets_w |-> Len(sl.tw.rows), tickets_b |-> Len(sl.tb.rows),
         repeaters_w |-> IF churn THEN Distinct(sl.ow, "customer_id") ELSE 0,
         repeaters_b |-> IF churn THEN Distinct(sl.ob, "customer_id") ELSE 0,
         aov_w |-> SafeDiv(net_w, Q(IF n_ow < 1 THEN 1 ELSE n_ow)),
         n_rw |-> Len(sl.rw.rows), n_ow |-> n_ow, n_pw |-> Len(sl.pw.rows),
         n_order_lines |-> Len(T.order_lines.rows), n_discounts |-> Len(T.discounts.rows)]

\* Loss1 as it would be without the deduction of the baseline rate
Loss1NoBaseline(a) ==
    IF QLt(QMul(a.refund_rate_b, <<6, 5>>), a.refund_rate_w) /\ QLe(Q(500), a.refund_w)
    THEN QMax(Q(0), a.refund_w)
    ELSE Q(0)

\* the ten raw losses, in the order the code computes them
Loss1(a) ==
    IF QLt(QMul(a.refund_rate_b, <<6, 5>>), a.refund_rate_w) /\ QLe(Q(500), a.refund_w)
    THEN QMax(Q(0), QSub(a.refund_w, QMul(a.refund_rate_b, a.net_w)))
    ELSE Q(0)

Loss2(a) == a.loss2

\* Loss3 as it would be with the target fixed at 0.10
Loss3FixedTarget(a) ==
    LET target_discount == <<1, 10>>
    IN  IF QLt(QAdd(a.discount_rate_b, <<3, 100>>), a.discount_rate_w)
        THEN QMax(Q(0), QMul(QSub(a.discount_rate_w, target_discount), a.gross_w))
        ELSE Q(0)

Loss3(a) ==
    LET target_discount == QMax(a.discount_rate_b, <<1, 10>>)
    IN  IF QLt(QAdd(a.discount_rate_b, <<3, 100>>), a.discount_rate_w)
        THEN QMax(Q(0), QMul(QSub(a.discount_rate_w, target_discount), a.gross_w))
        ELSE Q(0)

Loss4(a) == a.loss4

Loss5(a) ==
    IF QLt(QMul(a.shipping_ratio_b, <<23, 20>>), a.shipping_ratio_w)
    THEN QMax(Q(0), QSub(a.shipping_w, QMul(a.shipping_ratio_b, a.net_w)))
    ELSE Q(0)

Loss6(a) ==
    IF QLt(QAdd(a.fail_rate_b, <<1, 50>>), a.fail_rate_w) THEN a.failed_amount_w ELSE Q(0)

Loss7(a) ==
    IF QLt(QMul(Q(a.disp_b), <<6, 5>>), Q(a.disp_w))
    THEN QAdd(a.dispute_amount_w, Q(a.disp_w * DisputeFee))
    ELSE Q(0)

Loss8(a) ==
    IF QLt(a.margin_w, QSub(a.margin_b, <<3, 100>>))
    THEN QMax(Q(0), QMul(QSub(a.margin_b, a.margin_w), a.net_w))
    ELSE Q(0)

Loss9(a) ==
    IF /\ QLt(QMul(Q(a.tickets_b), <<6, 5>>), Q(a.tickets_w))
       /\ QLt(QMul(a.refund_b, <<11, 10>>), a.refund_w)
    THEN LET expected_w == QMul(a.refund_b, Frac(28, 84))
         IN  QMax(Q(0), QSub(a.refund_w, expected_w))
    ELSE Q(0)

Loss10(a) ==
    IF a.repeaters_b > a.repeaters_w
    THEN QMul(Q(a.repeaters_b - a.repeaters_w), a.aov_w)
    ELSE Q(0)

\* loss1 .. loss10 before rounding
Losses(a) == <<Loss1(a), Loss2(a), Loss3(a), Loss4(a), Loss5(a),
               Loss6(a), Loss7(a), Loss8(a), Loss9(a), Loss10(a)>>

\* LeakSignal as it would be if the severity were taken of the rounded loss
LeakSignalRounded(signal_id, loss, net_w, sample_size, reason_code, metrics) ==
    [signal_id |-> signal_id, estimated_loss_usd |-> Round2(loss),
     severity |-> Severity(Cents(Round2(loss)), net_w),
     confidence |-> Confidence(sample_size, Q(1)),
     reason_code |-> reason_code, metrics |-> metrics]

\* LeakSignal(...) as the code builds each one
LeakSignal(signal_id, loss, net_w, sample_size, reason_code, metrics) ==
    [signal_id |-> signal_id, estimated_loss_usd |-> Round2(loss),
     severity |-> Severity(loss, net_w), confidence |-> Confidence(sample_size, Q(1)),
     reason_code |-> reason_code, metrics |-> metrics]

NoMetrics == [m \in {} |-> 0]

\* the signals list after the ten appends
Signals(a) ==
    << LeakSignal("refund_spike", Loss1(a), a.net_w, a.n_rw,
                  "refund_rate_20pct_above_baseline",
                  [refund_rate_w |-> a.refund_rate_w, refund_rate_b |-> a.refund_rate_b]),
       LeakSignal("sku_refund_concentration", Loss2(a), a.net_w, a.n_order_lines,
                  "top_sku_refund_concentration", NoMetrics),
       LeakSignal("discount_overuse", Loss3(a), a.net_w, a.n_ow,
                  "discount_rate_above_baseline_plus_3pp",
                  [discount_rate_w |-> a.discount_rate_w,
                   discount_rate_b |-> a.discount_rate_b]),
       LeakSignal("coupon_abuse", Loss4(a), a.net_w, a.n_discounts,
                  "high_redemption_per_user", NoMetrics),
       LeakSignal("shipping_cost_creep", Loss5(a), a.net_w, a.n_ow,
                  "shipping_ratio_15pct_above_baseline",
                  [shipping_ratio_w |-> a.shipping_ratio_w,
                   shipping_ratio_b |-> a.shipping_ratio_b]),
       LeakSignal("failed_payment_recovery", Loss6(a), a.net_w, a.n_pw,
                  "failed_payment_rate_above_baseline_plus_2pp",
                  [fail_rate_w |-> a.fail_rate_w, fail_rate_b |-> a.fail_rate_b]),
       LeakSignal("dispute_chargeback", Loss7(a), a.net_w, a.n_pw,
                  "dispute_count_20pct_above_baseline", NoMetrics),
       LeakSignal("margin_compression", Loss8(a), a.net_w, a.n_ow,
                  "margin_drop_3pp", [margin_w |-> a.margin_w, margin_b |-> a.margin_b]),
       LeakSignal("support_linked_refunds", Loss9(a), a.net_w, a.tickets_w,
                  "support_growth_with_refund_growth",
                  [tickets_w |-> a.tickets_w, tickets_b |-> a.tickets_b]),
       LeakSignal("repeat_customer_churn", Loss10(a), a.net_w, a.n_ow,
                  "repeat_customer_decline", NoMetrics) >>

\* round(sum(s.estimated_loss_usd for s in signals), 2)
Total(signals) ==
    LET F[i \in 0..Len(signals)] ==
            IF i = 0 THEN Q(0) ELSE QAdd(F[i - 1], Cents(signals[i].estimated_loss_usd))
    IN  Round2(F[Len(signals)])

\* Report as it would be if signals without a loss were left out
ReportNonZero(sl, a) ==
    LET signals == SelectSeq(Signals(a), LAMBDA g : g.estimated_loss_usd # 0)
    IN  [kind |-> "report",
         window |-> [start |-> TsStr(sl.w_start), end |-> TsStr(sl.anchor),
                     baseline_start |-> TsStr(sl.b_start),
                     baseline_end |-> TsStr(sl.b_end)],
         summary |-> [signals |-> Len(signals),
                      total_estimated_loss_usd |-> Total(signals),
                      net_revenue_window |-> Round2(a.net_w)],
         signals |-> signals]

\* Report as it would be if the total were taken over the losses before rounding
ReportRawTotal(sl, a) ==
    LET signals == Signals(a)
        raw == <<Loss1(a), Loss2(a), Loss3(a), Loss4(a), Loss5(a),
                 Loss6(a), Loss7(a), Loss8(a), Loss9(a), Loss10(a)>>
        F[i \in 0..Len(raw)] == IF i = 0 THEN Q(0) ELSE QAdd(F[i - 1], raw[i])
    IN  [kind |-> "report",
         window |-> [start |-> TsStr(sl.w_start), end |-> TsStr(sl.anchor),
                     baseline_start |-> TsStr(sl.b_start),
                     baseline_end |-> TsStr(sl.b_end)],
         summary |-> [signals |-> Len(signals),
                      total_estimated_loss_usd |-> Round2(F[Len(raw)]),
                      net_revenue_window |-> Round2(a.net_w)],
         signals |-> signals]

\* the dict evaluate returns
Report(sl, a) ==
    LET signals == Signals(a)
    IN  [kind |-> "report",
         window |-> [start |-> TsStr(sl.w_start), end |-> TsStr(sl.anchor),
                     baseline_start |-> TsStr(sl.b_start),
                     baseline_end |-> TsStr(sl.b_end)],
         summary |-> [signals |-> Len(signals),
                      total_estimated_loss_usd |-> Total(signals),
                      net_revenue_window |-> Round2(a.net_w)],
         signals |-> signals]

Raised(e) == [kind |-> "error", type |-> e]

(***************************************************************************)
(* The tables the caller loads.                                            *)
(***************************************************************************)
OrderRows ==
    {[order_id |-> "o1", customer_id |-> "c1", order_ts |-> p[1],
      gross_revenue |-> Num(1250000), discount_amount |-> Num(250004), net_revenue |-> p[2],
      shipping_cost |-> Num(100004), cogs_total |-> Num(500000)] :
        p \in ({TsText(1), TsText(85), TsText(113), TsJunk} \X {Num(1000000)})
              \cup {<<TsText(85), Text>>}}

OrderLineRows ==
    {[order_id |-> "o1", sku_id |-> k, line_net |-> Num(500000)] : k \in {"s1", "s2"}}

RefundRows ==
    {[order_id |-> "o1", refund_ts |-> t, refund_amount |-> Num(600000),
      refund_reason |-> "damaged"] :
        t \in {TsText(1), TsText(85), TsText(113), TsJunk}}

PaymentRows ==
    {[order_id |-> "o1", payment_ts |-> p[1], amount |-> Num(p[3]), status |-> p[2],
      dispute_amount |-> Num(IF p[2] = "disputed" THEN 40000 ELSE 0)] :
        p \in {<<TsText(85), "succeeded", 50000>>, <<TsText(113), "succeeded", 50000>>,
               <<TsText(85), "failed", 50000>>, <<TsText(85), "failed", -50000>>,
               <<TsText(85), "disputed", 50000>>}}

TicketRows ==
    {[customer_id |-> "c1", created_ts |-> t, topic |-> "refund"] :
        t \in {TsText(0), TsText(85), TsText(113), TsJunk}}

DiscountRows ==
    {[order_id |-> "o1", coupon_code |-> "SAVE", customer_id |-> "c1",
      discount_value |-> Num(20000)]}

RowsOf(t) ==
    CASE t = "orders" -> OrderRows
      [] t = "order_lines" -> OrderLineRows
      [] t = "refunds" -> RefundRows
      [] t = "payments" -> PaymentRows
      [] t = "tickets" -> TicketRows
      [] t = "discounts" -> DiscountRows

Schema(t) == DOMAIN (CHOOSE r \in RowsOf(t) : TRUE)

RowCount(T) ==
    Len(T.orders.rows) + Len(T.order_lines.rows) + Len(T.refunds.rows)
    + Len(T.payments.rows) + Len(T.tickets.rows) + Len(T.discounts.rows)

\* the columns a loaded file may lack
Droppable == {<<"orders", "order_ts">>, <<"refunds", "refund_amount">>,
              <<"payments", "status">>, <<"tickets", "created_ts">>}

\* the columns the loaded files lack
Dropped(T) == {p \in Droppable : T[p[1]].cols # {} /\ p[2] \notin T[p[1]].cols}

\* the clock values a call may read
Clocks == {120, 121}

Project(r, cols) == [c \in cols |-> r[c]]

NoLocals == [sliced |-> FALSE, scored |-> FALSE]

Init ==
    /\ tables = [t \in TableNames |-> EmptyFrame]
    /\ loaded = tables
    /\ pc = "load"
    /\ results = <<>>
    /\ ev = NoLocals
    /\ trace = <<>>
    /\ runs = [t \in Tenants |-> <<>>]
    /\ resp = NoResponse
    /\ env = NoEnv
    /\ ServerIdle

\* _read_table returned one more row of table t
LoadRow(t, r) ==
    /\ pc = "load"
    /\ RowCount(tables) < MaxRows
    /\ LET cols == IF tables[t].cols = {} THEN Schema(t) ELSE tables[t].cols
       IN  tables' = [tables EXCEPT ![t] = [cols |-> cols,
                                            rows |-> Append(@.rows, Project(r, cols))]]
    /\ loaded' = tables'
    /\ UNCHANGED <<pc, results, ev, trace, runs, resp, serverVars>>

\* the file of table t has no column c
LoadWithout(t, c) ==
    /\ pc = "load"
    /\ c \in tables[t].cols
    /\ Cardinality(Dropped(tables)) < MaxDrops
    /\ LET cols == tables[t].cols \ {c}
       IN  tables' = [tables EXCEPT ![t] = [cols |-> cols,
                          rows |-> [i \in 1..Len(@.rows) |-> Project(@.rows[i], cols)]]]
    /\ loaded' = tables'
    /\ UNCHANGED <<pc, results, ev, trace, runs, resp, serverVars>>

\* one call evaluate(orders, order_lines, refunds, payments, tickets, discounts)
Evaluate ==
    /\ Len(results) < MaxCalls
    /\ \E T \in {Converted(tables)} : \E anchor \in {Anchor(T, clock) : clock \in Clocks} :
         /\ tables' = T
         /\ IF anchor.err # "none"
            THEN /\ results' = Append(results, Raised(anchor.err))
                 /\ ev' = NoLocals
            ELSE \E sl \in {Slices(T, anchor.v)} : \E st \in {Steps(T, sl)} :
                   IF FirstErr(st) # "none"
                   THEN /\ results' = Append(results, Raised(FirstErr(st)))
                        /\ ev' = [sliced |-> TRUE, scored |-> FALSE, sl |-> sl]
                   ELSE \E a \in {Scalars(T, sl, st)} :
                          /\ results' = Append(results, Report(sl, a))
                          /\ ev' = [sliced |-> TRUE, scored |-> TRUE, sl |-> sl, a |-> a,
                                    loss |-> Losses(a)]
    /\ pc' = "run"
    /\ UNCHANGED <<loaded, trace, runs, resp, serverVars>>

\* the caller reads the same files again before another call
Reload ==
    /\ pc = "run"
    /\ Len(results) < MaxCalls
    /\ tables # loaded
    /\ tables' = loaded
    /\ UNCHANGED <<loaded, pc, results, ev, trace, runs, resp, serverVars>>

Next ==
    \/ \E t \in TableNames : \E r \in RowsOf(t) : LoadRow(t, r)
    \/ \E p \in Droppable : LoadWithout(p[1], p[2])
    \/ Evaluate
    \/ Reload

Spec == Init /\ [][Next]_vars

(***************************************************************************)
(* evaluate as a function of its tables: the tables are drawn from three   *)
(* families, each varying the tables some heuristics read.                 *)
(***************************************************************************)
MaxLines == 6    \* order lines in the order_lines table
MaxUses == 4     \* redemptions of one coupon code in the discounts table

Order(id, customer, day, gross, discount, net, shipping) ==
    [order_id |-> id, customer_id |-> customer, order_ts |-> TsText(day),
     gross_revenue |-> Num(gross), discount_amount |-> Num(discount),
     net_revenue |-> Num(net), shipping_cost |-> Num(shipping), cogs_total |-> Num(0)]

\* two orders of the window, two of the baseline, and a window order whose
\* discount and shipping losses round to the same cents
OrderList ==
    << Order("o1", "c1", 85, 1000000, 250000, 1000000, 0),
       Order("o2", "c2", 90, 1000000, 90000, 500000, 0),
       Order("o3", "c1", 30, 1000000, 50000, 1000000, 0),
       Order("o4", "c2", 40, 1000000, 190000, 1000000, 0),
       Order("o5", "c3", 95, 1250000, 205002, 1000000, 79996) >>

Refund(id, day, amount) ==
    [order_id |-> id, refund_ts |-> TsText(day), refund_amount |-> Num(amount),
     refund_reason |-> "damaged"]

\* two refunds of the window and one of the baseline
RefundList == << Refund("o1", 85, 600000), Refund("o2", 90, 400000),
                 Refund("o1", 30, 100000) >>

\* the payment that dates the anchor
AnchorPayment ==
    [order_id |-> "o1", payment_ts |-> TsText(113), amount |-> Num(50000),
     status |-> "succeeded", dispute_amount |-> Num(0)]

\* order line i: the first two lines belong to order o1, the others to o2, each
\* with a SKU of its own
OrderLine(i) ==
    [order_id |-> IF i <= 2 THEN "o1" ELSE "o2", sku_id |-> i, line_net |-> Num(100000)]

\* n1 redemptions of SAVE on the window order o1, by k customers in turn, then
\* n2 redemptions of VIP by one customer on the baseline order o3
DiscountList(n1, k, n2) ==
    [i \in 1..(n1 + n2) |->
        IF i <= n1
        THEN [order_id |-> "o1", coupon_code |-> "SAVE",
              customer_id |-> IF i % k = 0 THEN "c1" ELSE "c2", discount_value |-> Num(20000)]
        ELSE [order_id |-> "o3", coupon_code |-> "VIP", customer_id |-> "c3",
              discount_value |-> Num(30000)]]

RECURSIVE Pick(_, _, _)
Pick(list, S, i) ==
    IF i > Len(list) THEN <<>>
    ELSE (IF i \in S THEN <<list[i]>> ELSE <<>>) \o Pick(list, S, i + 1)

\* the lists of some of the rows of list, in their order
SubSeqs(list) == {Pick(list, S, 1) : S \in SUBSET (1..Len(list))}

\* what _read_table returns for these rows; pd.DataFrame() when there is no file
Frame(rows) ==
    IF Len(rows) = 0 THEN EmptyFrame ELSE [cols |-> DOMAIN rows[1], rows |-> rows]

\* the frame of a file without the columns of C
Without(df, C) ==
    [cols |-> df.cols \ C,
     rows |-> [i \in 1..Len(df.rows) |-> Project(df.rows[i], df.cols \ C)]]

NoTables == [t \in TableNames |-> EmptyFrame]

\* orders and refunds of the window and the baseline, with or without a later payment
RefundFamily ==
    {[NoTables EXCEPT !.orders = Frame(o), !.refunds = Frame(r), !.payments = Frame(p)] :
        o \in SubSeqs(OrderList), r \in SubSeqs(RefundList),
        p \in {<<>>, <<AnchorPayment>>}}

\* order lines joined to refunds, either file possibly without order_id
SkuFamily ==
    {[NoTables EXCEPT !.orders = Frame(<<OrderList[1]>>),
                      !.payments = Frame(<<AnchorPayment>>),
                      !.refunds = Without(Frame(r), d \cap {"refunds"} \X {"order_id"}),
                      !.order_lines = Without(Frame([i \in 1..n |-> OrderLine(i)]),
                                              d \cap {"order_lines"} \X {"order_id"})] :
        r \in SubSeqs(RefundList) \ {<<>>}, n \in 1..MaxLines,
        d \in {{}, {"refunds"}, {"order_lines"}}}

\* coupon redemptions on a window order and on a baseline order
CouponFamily ==
    {[NoTables EXCEPT !.orders = Frame(<<OrderList[1], OrderList[3]>>),
                      !.payments = Frame(<<AnchorPayment>>),
                      !.discounts = Without(Frame(DiscountList(n1, k, n2)), d)] :
        n1 \in 0..MaxUses, k \in {1, 2}, n2 \in 0..MaxUses,
        d \in {{}, {"coupon_code"}, {"customer_id"}, {"discount_value"}}}

EvalInit ==
    /\ tables \in RefundFamily \cup SkuFamily \cup CouponFamily
    /\ loaded = tables
    /\ pc = "load"
    /\ results = <<>>
    /\ ev = NoLocals
    /\ trace = <<>>
    /\ runs = [t \in Tenants |-> <<>>]
    /\ resp = NoResponse
    /\ env = NoEnv
    /\ ServerIdle

EvalNext ==
    \/ Evaluate
    \/ Reload

EvalSpec == EvalInit /\ [][EvalNext]_vars

(***************************************************************************)
(* _severity and _confidence called directly, next to a call of evaluate   *)
(* on one set of tables.  trace keeps the latest two direct calls.         *)
(***************************************************************************)
SeverityLosses == {Q(-100), Q(0), Frac(2999, 100), Q(30), Q(80), Q(2500), Q(10000)}
SeverityRevenues == {Q(-1000), Q(1000), Q(1000000)}
SampleSizes == {0, 500, 800, 5000}
Completenesses == {Q(0), Frac(1, 2), Q(1), Q(2)}

\* the trace after one more call
Traced(call) == IF trace = <<>> THEN <<call>> ELSE <<trace[Len(trace)], call>>

\* one window order with a window refund and a later payment, and six order lines
FnTables ==
    [NoTables EXCEPT !.orders = Frame(<<OrderList[1]>>),
                     !.refunds = Frame(<<RefundList[1]>>),
                     !.payments = Frame(<<AnchorPayment>>),
                     !.order_lines = Frame([i \in 1..6 |-> OrderLine(i)])]

FnInit ==
    /\ tables = FnTables
    /\ loaded = tables
    /\ pc = "load"
    /\ results = <<>>
    /\ ev = NoLocals
    /\ trace = <<>>
    /\ runs = [t \in Tenants |-> <<>>]
    /\ resp = NoResponse
    /\ env = NoEnv
    /\ ServerIdle

\* one call _severity(loss, revenue_window)
CallSeverity(loss, revenue_window) ==
    /\ trace' = Traced([f |-> "_severity", loss |-> loss, revenue_window |-> revenue_window,
                        out |-> Severity(loss, revenue_window)])
    /\ UNCHANGED <<tables, loaded, pc, results, ev, runs, resp, serverVars>>

\* one call _confidence(sample_size, completeness)
CallConfidence(sample_size, completeness) ==
    /\ trace' = Traced([f |-> "_confidence", sample_size |-> sample_size,
                        completeness |-> completeness,
                        out |-> Confidence(sample_size, completeness)])
    /\ UNCHANGED <<tables, loaded, pc, results, ev, runs, resp, serverVars>>

FnNext ==
    \/ \E loss \in SeverityLosses : \E revenue_window \in SeverityRevenues :
         CallSeverity(loss, revenue_window)
    \/ \E sample_size \in SampleSizes : \E completeness \in Completenesses :
         CallConfidence(sample_size, completeness)
    \/ Evaluate

FnSpec == FnInit /\ [][FnNext]_vars

(***************************************************************************)
(* The revenue-leaks routes (backend/app/routes/revenue_leaks.py).  Each   *)
(* tenant keeps its files under data/<tenant>/<dataset>/; the log file of  *)
(* a tenant is the sequence of the entries appended to it.  Times are      *)
(* integers; two requests may read the same time.                          *)
(***************************************************************************)
MaxRuns == 3     \* entries in the run logs of all tenants together

\* the datasets a request may name: a refund spike, two losses that round to
\* the same cents, and a directory without files
Datasets == {"spike", "tie", "missing"}

\* _read_table on the six paths of a dataset
Files(ds) ==
    CASE ds = "spike" -> FnTables
      [] ds = "tie" -> [NoTables EXCEPT !.orders = Frame(<<OrderList[5]>>),
                                        !.payments = Frame(<<AnchorPayment>>)]
      [] ds = "missing" -> NoTables
      [] ds = "export" -> NoTables

\* evaluate on frames: the frames after the call, what it returns or raises,
\* and its locals
EvaluateOn(frames) ==
    LET T == Converted(frames)
        anchor == Anchor(T, 0)
        sl == Slices(T, anchor.v)
        st == Steps(T, sl)
        a == Scalars(T, sl, st)
    IN  IF anchor.err # "none"
        THEN [loaded |-> frames, tables |-> T, result |-> Raised(anchor.err), ev |-> NoLocals]
        ELSE IF FirstErr(st) # "none"
        THEN [loaded |-> frames, tables |-> T, result |-> Raised(FirstErr(st)),
              ev |-> [sliced |-> TRUE, scored |-> FALSE, sl |-> sl]]
        ELSE [loaded |-> frames, tables |-> T, result |-> Report(sl, a),
              ev |-> [sliced |-> TRUE, scored |-> TRUE, sl |-> sl, a |-> a,
                      loss |-> Losses(a)]]

\* evaluate on the frames read for each dataset
Evaluated == [ds \in Datasets |-> EvaluateOn(Files(ds))]

\* list.sort(key=field, reverse=True) and sorted(..., reverse=True): x goes
\* behind every element whose key is not below its own
InsertDesc(sorted, x, field) ==
    LET below == {i \in 1..Len(sorted) : sorted[i][field] < x[field]}
        at == IF below = {} THEN Len(sorted) + 1
              ELSE CHOOSE i \in below : \A j \in below : i <= j
    IN  SubSeq(sorted, 1, at - 1) \o <<x>> \o SubSeq(sorted, at, Len(sorted))

RECURSIVE SortDesc(_, _)
SortDesc(seq, field) ==
    IF Len(seq) = 0 THEN <<>>
    ELSE InsertDesc(SortDesc(SubSeq(seq, 1, Len(seq) - 1), field), seq[Len(seq)], field)

Reverse(seq) == [i \in 1..Len(seq) |-> seq[Len(seq) + 1 - i]]

Head_(seq, n) == SubSeq(seq, 1, IF n < Len(seq) THEN n ELSE Len(seq))

\* Ranked as it would be if the signals were sorted upwards and then reversed:
\* equal losses come out in the reverse of their order
RankedReversed(signals) == SortDesc(Reverse(signals), "estimated_loss_usd")

\* ranked = sorted(signals, key=estimated_loss_usd, reverse=True)
Ranked(signals) == SortDesc(signals, "estimated_loss_usd")

\* the dashboard dict of a report
Dashboard(result) ==
    LET ranked == Ranked(result.signals)
        high == SelectSeq(ranked, LAMBDA g : g.severity = "high")
    IN  [window |-> result.window,
         summaryCards |-> [totalEstimatedLeakUsd |-> result.summary.total_estimated_loss_usd,
                           signalsDetected |-> result.summary.signals,
                           highSeverityCount |-> Len(high),
                           netRevenueWindow |-> result.summary.net_revenue_window],
         topLeaks |-> Head_(ranked, 10),
         allSignals |-> ranked]

\* run_entry
RunEntry(tenant_id, run_ts, dashboard) ==
    [runTs |-> run_ts, tenantId |-> tenant_id, template |-> "revenue_leaks_v1",
     summaryCards |-> dashboard.summaryCards, window |-> dashboard.window,
     topLeaks |-> dashboard.topLeaks]

\* PersistRun as it would be if the file were opened for writing
PersistRunOverwrite(log, entry) == <<entry>>

\* _persist_run: one more line at the end of the file
PersistRun(log, entry) == Append(log, entry)

\* _load_runs: the entries of the file, latest runTs first, at most limit
LoadRuns(log, limit) == Head_(SortDesc(log, "runTs"), limit)

None == [none |-> TRUE]

\* _delta_from_previous (the totals are counted in cents)
DeltaFromPrevious(cards, previous) ==
    IF previous = None
    THEN [totalEstimatedLeakUsdDelta |-> None, highSeverityCountDelta |-> None,
          signalsDetectedDelta |-> None]
    ELSE [totalEstimatedLeakUsdDelta |->
              cards.totalEstimatedLeakUsd - previous.summaryCards.totalEstimatedLeakUsd,
          highSeverityCountDelta |->
              cards.highSeverityCount - previous.summaryCards.highSeverityCount,
          signalsDetectedDelta |->
              cards.signalsDetected - previous.summaryCards.signalsDetected]

\* HTTPException(status_code, detail.code)
HttpError(status_code, code) == [status |-> "error", status_code |-> status_code, code |-> code]

\* the times a request may read: that of the latest entry logged, or a later one
LoggedTimes == UNION {{runs[t][i].runTs : i \in 1..Len(runs[t])} : t \in Tenants}
RunClocks == LET last == IF LoggedTimes = {} THEN 0 ELSE SetMax(LoggedTimes)
             IN  {last, last + 1}

Logged == LET F[S \in SUBSET Tenants] ==
                  IF S = {} THEN 0
                  ELSE LET t == CHOOSE x \in S : TRUE IN Len(runs[t]) + F[S \ {t}]
          IN  F[Tenants]

\* the limits a GET request may pass
Limits == {0, 1, 30}

\* the X-Tenant-Id values requests carry ("" is a request without the header,
\* "a65" an id of 65 letters), and the characters of each
Headers == {"", " ", "acme", " acme ", "data", "a", "-acme", "acme/data", "a65"}

Chars(text) ==
    CASE text = "" -> <<>>
      [] text = " " -> <<" ">>
      [] text = "acme" -> <<"a", "c", "m", "e">>
      [] text = " acme " -> <<" ", "a", "c", "m", "e", " ">>
      [] text = "data" -> <<"d", "a", "t", "a">>
      [] text = "a" -> <<"a">>
      [] text = "-acme" -> <<"-", "a", "c", "m", "e">>
      [] text = "acme/data" -> <<"a", "c", "m", "e", "/", "d", "a", "t", "a">>
      [] text = "a65" -> [i \in 1..65 |-> "a"]

\* get_tenant_id on each header: the tenant of the request, or the code of the
\* error raised; str.strip() drops the blanks at both ends, and _TENANT_RE is
\* ^[a-zA-Z0-9][a-zA-Z0-9_-]{1,63}$
get_tenant_id ==
    [x_tenant_id \in Headers |->
        LET chars == Chars(x_tenant_id)
            inked == {i \in 1..Len(chars) : chars[i] # " "}
            tenant == IF inked = {} THEN <<>>
                      ELSE SubSeq(chars, CHOOSE i \in inked : \A j \in inked : i <= j,
                                         CHOOSE i \in inked : \A j \in inked : i >= j)
            alnum == {"a", "b", "c", "d", "e", "f", "g", "h", "i", "j", "k", "l", "m",
                      "n", "o", "p", "q", "r", "s", "t", "u", "v", "w", "x", "y", "z",
                      "A", "B", "C", "D", "E", "F", "G", "H", "I", "J", "K", "L", "M",
                      "N", "O", "P", "Q", "R", "S", "T", "U", "V", "W", "X", "Y", "Z",
                      "0", "1", "2", "3", "4", "5", "6", "7", "8", "9"}
            matches == /\ Len(tenant) >= 2
                       /\ Len(tenant) <= 64
                       /\ tenant[1] \in alnum
                       /\ \A i \in 2..Len(tenant) : tenant[i] \in alnum \cup {"_", "-"}
        IN  IF tenant = <<>> THEN [err |-> "tenant_missing"]
            ELSE IF ~matches THEN [err |-> "tenant_invalid"]
            ELSE [err |-> "none", tenant |-> CHOOSE t \in Headers : Chars(t) = tenant]]

\* the path a request names for table t: none, or data/<owner>/<ds>/<t>, as
\* the segments of Path(path).as_posix().split("/")
PathOf(owner, ds, t) == IF owner = "" THEN <<>> ELSE <<"data", owner, ds, t>>

\* _tenant_scoped_path raises nothing
TenantScopedPath(path, tenant_id) == path = <<>> \/ tenant_id \in SeqRange(path)

\* the frames _read_table returns for the paths of a request
ReadTables(scope, ds) ==
    [t \in TableNames |-> IF scope[t] = "" THEN EmptyFrame ELSE Files(ds)[t]]

\* the error that reading the six tables in the order of evaluate's arguments
\* raises first, "none" if none; _read_table raises ValueError for the file
\* orders.txt of the dataset export
FirstRaise(tenant_id, scope, ds) ==
    LET order == <<"orders", "order_lines", "refunds", "payments", "tickets", "discounts">>
        path(i) == PathOf(scope[order[i]], ds, order[i])
        unread(i) == path(i) # <<>> /\ ds = "export" /\ order[i] = "orders"
        raising == {i \in 1..6 : ~TenantScopedPath(path(i), tenant_id) \/ unread(i)}
        first == CHOOSE i \in raising : \A j \in raising : i <= j
    IN  IF raising = {} THEN "none"
        ELSE IF ~TenantScopedPath(path(first), tenant_id) THEN "path_not_tenant_scoped"
        ELSE "revenue_leaks_eval_failed"

ApiInit ==
    /\ tables = NoTables
    /\ loaded = tables
    /\ pc = "load"
    /\ results = <<>>
    /\ ev = NoLocals
    /\ trace = <<>>
    /\ runs = [t \in Tenants |-> <<>>]
    /\ resp = NoResponse
    /\ env = NoEnv
    /\ ServerIdle

\* run_revenue_leaks with its dependency get_tenant_id: the request carries
\* the X-Tenant-Id header and, for each table t, no path (scope[t] = "") or the
\* path data/<scope[t]>/<ds>/<t>
run_revenue_leaks(header, scope, ds) ==
    \E who \in {get_tenant_id[header]} :
      IF who.err # "none"
      THEN /\ resp' = HttpError(400, who.err)
           /\ UNCHANGED <<tables, loaded, pc, results, ev, runs>>
      ELSE \E raised \in {FirstRaise(who.tenant, scope, ds)} :
        IF raised # "none"
        THEN /\ resp' = HttpError(400, raised)
             /\ UNCHANGED <<tables, loaded, pc, results, ev, runs>>
        ELSE \E e \in {IF ds \in Datasets /\ \A t \in TableNames : scope[t] # ""
                        THEN Evaluated[ds] ELSE EvaluateOn(ReadTables(scope, ds))} :
               /\ loaded' = e.loaded
               /\ tables' = e.tables
               /\ results' = <<e.result>>
               /\ ev' = e.ev
               /\ pc' = "run"
               /\ IF e.result.kind = "error"
                  THEN /\ resp' = HttpError(400, "revenue_leaks_eval_failed")
                       /\ UNCHANGED runs
                  ELSE \E run_ts \in RunClocks : \E dashboard \in {Dashboard(e.result)} :
                         LET log == PersistRun(runs[who.tenant],
                                               RunEntry(who.tenant, run_ts, dashboard))
                             recent == LoadRuns(log, 2)
                             previous == IF Len(recent) > 1 THEN recent[2] ELSE None
                         IN  /\ runs' = [runs EXCEPT ![who.tenant] = log]
                             /\ resp' = [status |-> "success", template |-> "revenue_leaks_v1",
                                         tenantId |-> who.tenant, runTs |-> run_ts,
                                         dashboard |-> dashboard,
                                         deltas |-> DeltaFromPrevious(dashboard.summaryCards,
                                                                      previous)]

\* POST /templates/revenue-leaks/run with X-Tenant-Id header and the six paths
\* data/<owner>/<ds>/<table>
PostRun(header, owner, ds) ==
    /\ Logged < MaxRuns
    /\ run_revenue_leaks(header, [t \in TableNames |-> owner], ds)
    /\ UNCHANGED <<trace, serverVars>>

\* the trend rows of GET /runs and the points of GET /trend, oldest first
TrendOf(listed) ==
    [i \in 1..Len(listed) |->
        LET r == listed[Len(listed) + 1 - i]
        IN  [runTs |-> r.runTs,
             totalEstimatedLeakUsd |-> r.summaryCards.totalEstimatedLeakUsd,
             highSeverityCount |-> r.summaryCards.highSeverityCount,
             signalsDetected |-> r.summaryCards.signalsDetected]]

\* max(1, min(int(limit), most))
ClampLimit(limit, most) == IF limit < 1 THEN 1 ELSE IF limit > most THEN most ELSE limit

NoCards == [totalEstimatedLeakUsd |-> 0, highSeverityCount |-> 0, signalsDetected |-> 0]

\* GET /templates/revenue-leaks/runs
GetRuns(header, limit) ==
    /\ \E who \in {get_tenant_id[header]} :
         IF who.err # "none"
         THEN resp' = HttpError(400, who.err)
         ELSE LET listed == LoadRuns(runs[who.tenant], ClampLimit(limit, 200))
                  last == IF Len(listed) > 0 THEN listed[1] ELSE None
                  prev == IF Len(listed) > 1 THEN listed[2] ELSE None
              IN  resp' = [status |-> "success", template |-> "revenue_leaks_v1",
                           tenantId |-> who.tenant, count |-> Len(listed), latest |-> last,
                           deltas |-> DeltaFromPrevious(
                                          IF last = None THEN NoCards ELSE last.summaryCards, prev),
                           trend |-> TrendOf(listed), runs |-> listed]
    /\ UNCHANGED <<tables, loaded, pc, results, ev, trace, runs, serverVars>>

\* GET /templates/revenue-leaks/trend
GetTrend(header, limit) ==
    /\ \E who \in {get_tenant_id[header]} :
         IF who.err # "none"
         THEN resp' = HttpError(400, who.err)
         ELSE LET listed == LoadRuns(runs[who.tenant], ClampLimit(limit, 365))
                  points == [i \in 1..Len(listed) |->
                                [t |-> TrendOf(listed)[i].runTs,
                                 leakUsd |-> TrendOf(listed)[i].totalEstimatedLeakUsd,
                                 high |-> TrendOf(listed)[i].highSeverityCount,
                                 signals |-> TrendOf(listed)[i].signalsDetected]]
              IN  resp' = [status |-> "success", template |-> "revenue_leaks_v1",
                           tenantId |-> who.tenant, count |-> Len(points), points |-> points]
    /\ UNCHANGED <<tables, loaded, pc, results, ev, trace, runs, serverVars>>

ApiNext ==
    \/ \E header \in Tenants \cup {""} : \E owner \in Tenants : \E ds \in Datasets :
         PostRun(header, owner, ds)
    \/ \E header \in Tenants \cup {""} : \E limit \in Limits : GetRuns(header, limit)
    \/ \E header \in Tenants \cup {""} : \E limit \in Limits : GetTrend(header, limit)

ApiSpec == ApiInit /\ [][ApiNext]_vars

(***************************************************************************)
(* Run requests that overlap.  run_revenue_leaks is a plain function, so   *)
(* the server runs each request in a thread of its pool; between reading   *)
(* the clock, appending to the log and reading the log back the threads of *)
(* other requests may run.  A thread that has answered keeps the line its  *)
(* entry was written at and the deltas it returned.                        *)
(***************************************************************************)
\* run_revenue_leaks up to run_ts = datetime.utcnow(): thread r takes a request
\* of tenant header for the paths data/<header>/<ds>/<table>; the clock shows
\* the time it showed to the request before, or a later one
RunStart(r, header, ds) ==
    /\ flights[r].pc \in {"idle", "done"}
    /\ Logged + Cardinality({q \in Flights : flights[q].pc = "timed"}) < MaxRuns
    /\ \E e \in {Evaluated[ds]} :
         /\ loaded' = e.loaded
         /\ tables' = e.tables
         /\ results' = <<e.result>>
         /\ ev' = e.ev
         /\ pc' = "run"
         /\ IF e.result.kind = "error"
            THEN /\ resp' = HttpError(400, "revenue_leaks_eval_failed")
                 /\ flights' = [flights EXCEPT ![r] = [pc |-> "idle"]]
                 /\ UNCHANGED now
            ELSE \E run_ts \in {now, now + 1} :
                   /\ now' = run_ts
                   /\ flights' = [flights EXCEPT ![r] =
                                     [pc |-> "timed", tenant_id |-> header,
                                      dashboard |-> Dashboard(e.result), run_ts |-> run_ts]]
                   /\ UNCHANGED resp
    /\ UNCHANGED <<trace, runs, hits, admitted, req, env, cursor, health, syncs>>

\* _persist_run(run_store, run_entry)
RunPersist(r) ==
    /\ flights[r].pc = "timed"
    /\ LET f == flights[r]
           log == PersistRun(runs[f.tenant_id], RunEntry(f.tenant_id, f.run_ts, f.dashboard))
       IN  /\ runs' = [runs EXCEPT ![f.tenant_id] = log]
           /\ flights' = [flights EXCEPT ![r] =
                             [pc |-> "persisted", tenant_id |-> f.tenant_id,
                              dashboard |-> f.dashboard, run_ts |-> f.run_ts,
                              line |-> Len(log)]]
    /\ UNCHANGED <<tables, loaded, pc, results, ev, trace, resp,
                   hits, admitted, req, now, env, cursor, health, syncs>>

\* recent = _load_runs(run_store, limit=2) and the return of run_revenue_leaks
RunRespond(r) ==
    /\ flights[r].pc = "persisted"
    /\ LET f == flights[r]
           recent == LoadRuns(runs[f.tenant_id], 2)
           previous == IF Len(recent) > 1 THEN recent[2] ELSE None
           deltas == DeltaFromPrevious(f.dashboard.summaryCards, previous)
       IN  /\ resp' = [status |-> "success", template |-> "revenue_leaks_v1",
                       tenantId |-> f.tenant_id, runTs |-> f.run_ts,
                       dashboard |-> f.dashboard, deltas |-> deltas]
           /\ flights' = [flights EXCEPT ![r] =
                             [pc |-> "done", tenant_id |-> f.tenant_id, line |-> f.line,
                              previous |-> previous, deltas |-> deltas]]
    /\ UNCHANGED <<tables, loaded, pc, results, ev, trace, runs,
                   hits, admitted, req, now, env, cursor, health, syncs>>

RunNext ==
    \/ \E r \in Flights : \E header \in Tenants : \E ds \in Datasets : RunStart(r, header, ds)
    \/ \E r \in Flights : RunPersist(r)
    \/ \E r \in Flights : RunRespond(r)

RunSpec == ApiInit /\ [][RunNext]_vars

(***************************************************************************)
(* The Stripe connector (connectors/stripe_adapter.py) behind the route    *)
(* POST /connectors/stripe/sync.  sync_stripe is a plain function, so the  *)
(* calls of several requests run in threads that may overlap; a call is    *)
(* followed from loading the cursor file through the entities of its loop  *)
(* to saving the cursor file.  The cursor file of a tenant holds, for each *)
(* entity, the largest created value synced, 0 where it has no key; an     *)
(* optional value is a sequence of no or one element.                      *)
(***************************************************************************)
MaxCreated == 2   \* the largest created value of a Stripe record

\* _write_health with last_error left out
WriteHealthNoError(status, error) ==
    [exists |-> TRUE, status |-> status, last_error |-> <<>>]

\* _write_health: the health file it writes
WriteHealth(status, error) ==
    [exists |-> TRUE, status |-> status, last_error |-> error]

\* sync_stripe with its dependency get_tenant_id, as far as
\* cursor = self._load_cursor(): call c, the first that is free, starts for the
\* tenant of the header
sync_stripe(c, header, since_epoch) ==
    \E who \in {get_tenant_id[header]} :
      IF who.err # "none"
      THEN /\ resp' = HttpError(400, who.err)
           /\ UNCHANGED <<cursor, health, syncs>>
      ELSE IF env.STRIPE_API_KEY = ""
      THEN /\ resp' = HttpError(503, "stripe_not_configured")
           /\ UNCHANGED <<cursor, health, syncs>>
      ELSE /\ syncs[c].pc # "loop"
           /\ c = "thread2" => syncs["thread1"].pc = "loop"
           /\ syncs' = [syncs EXCEPT ![c] =
                  [pc |-> "loop", tenant_id |-> who.tenant, since_epoch |-> since_epoch,
                   cursor |-> IF cursor[who.tenant].exists THEN cursor[who.tenant].data
                              ELSE [e \in SeqRange(Entities) |-> 0],
                   i |-> 1,
                   fetched |-> [e \in SeqRange(Entities) |-> 0]]]
           /\ resp' = NoResponse
           /\ UNCHANGED <<cursor, health>>

\* POST /connectors/stripe/sync arrives
SyncBegin(c, header, since_epoch) ==
    /\ req.n < MaxSyncs
    /\ req' = [n |-> req.n + 1, path |-> <<"api", "connectors", "stripe", "sync">>,
               x_api_key |-> ""]
    /\ sync_stripe(c, header, since_epoch)
    /\ UNCHANGED <<tables, loaded, pc, results, ev, trace, runs,
                   flights, hits, admitted, now, env>>

\* one turn of the loop of StripeConnector.sync in call c: _fetch_entity and
\* _write_outputs return, the records fetched having top as their largest
\* created value (0 if there is none), or one of them raises; what is raised
\* goes through the except branch of sync and that of sync_stripe
SyncEntity(c, top, raised) ==
    LET call == syncs[c]
        entity == Entities[call.i]
        start_epoch == IF call.since_epoch # <<>> THEN call.since_epoch[1]
                       ELSE call.cursor[entity]
        max_created == IF top > start_epoch THEN top ELSE start_epoch
    IN  /\ call.pc = "loop"
        /\ call.i <= Len(Entities)
        /\ IF raised = <<>>
           THEN /\ syncs' = [syncs EXCEPT ![c] =
                       [call EXCEPT !.i = call.i + 1,
                                    !.fetched[entity] = top,
                                    !.cursor[entity] =
                                        IF max_created # 0 /\ max_created > call.cursor[entity]
                                        THEN max_created ELSE @]]
                /\ UNCHANGED <<resp, cursor, health>>
           ELSE /\ health' = [health EXCEPT ![call.tenant_id] =
                                  WriteHealth("degraded", <<raised[1].text>>)]
                /\ syncs' = [syncs EXCEPT ![c] =
                       [pc |-> "failed", tenant_id |-> call.tenant_id, i |-> call.i,
                        cursor |-> call.cursor]]
                /\ resp' = IF raised[1].type = "ValueError"
                           THEN HttpError(400, "invalid_configuration")
                           ELSE HttpError(502, "stripe_sync_failed")
                /\ UNCHANGED cursor
        /\ UNCHANGED <<tables, loaded, pc, results, ev, trace, runs,
                       flights, hits, admitted, req, now, env>>

\* the end of StripeConnector.sync in call c: _save_cursor, _write_health,
\* and the answer of sync_stripe
SyncSave(c) ==
    LET call == syncs[c]
    IN  /\ call.pc = "loop"
        /\ call.i > Len(Entities)
        /\ cursor' = [cursor EXCEPT ![call.tenant_id] =
                          [exists |-> TRUE, data |-> call.cursor]]
        /\ health' = [health EXCEPT ![call.tenant_id] = WriteHealth("healthy", <<>>)]
        /\ syncs' = [syncs EXCEPT ![c] = [pc |-> "done", tenant_id |-> call.tenant_id]]
        /\ resp' = [status |-> "success", tenantId |-> call.tenant_id,
                    connectorStatus |-> "success"]
        /\ UNCHANGED <<tables, loaded, pc, results, ev, trace, runs,
                       flights, hits, admitted, req, now, env>>

\* the server with or without STRIPE_API_KEY
SyncInit ==
    /\ tables = NoTables
    /\ loaded = tables
    /\ pc = "load"
    /\ results = <<>>
    /\ ev = NoLocals
    /\ trace = <<>>
    /\ runs = [t \in Tenants |-> <<>>]
    /\ resp = NoResponse
    /\ env \in {NoEnv, [NoEnv EXCEPT !.STRIPE_API_KEY = "sk_test"]}
    /\ ServerIdle

\* the requests carry no header or the one of tenant acme, and no sinceEpoch
\* or sinceEpoch 0; JSONDecodeError is a ValueError, URLError and OSError are not
SyncNext ==
    \/ \E c \in SyncCalls : \E header \in {"", "acme"} : \E since_epoch \in {<<>>, <<0>>} :
         SyncBegin(c, header, since_epoch)
    \/ \E c \in SyncCalls : \E top \in 0..MaxCreated : SyncEntity(c, top, <<>>)
    \/ \E c \in SyncCalls :
         \E raised \in {[type |-> "ValueError", text |-> "Expecting value"],
                        [type |-> "URLError", text |-> "timed out"]} :
           SyncEntity(c, 0, <<raised>>)
    \/ \E c \in SyncCalls : SyncSave(c)

SyncSpec == SyncInit /\ [][SyncNext]_vars

(***************************************************************************)
(* The application (backend/app/main.py): every request passes the         *)
(* middleware request_log_and_rate_limit; the routes under /api also pass  *)
(* the dependency require_api_key (backend/app/security.py).  A path is    *)
(* the sequence of its segments.  Time is counted in seconds.              *)
(***************************************************************************)
MaxRequests == 4   \* requests the server receives

\* (now - q[0]) > 60
RateWindow == 60

\* request.url.path.startswith("/api/")
UnderApi(path) == Len(path) > 1 /\ path[1] = "api"

\* the environments the server is started in: no key and the flag unset or
\* set, a blank key, one key, a list that is no JSON, a list of keys; with a
\* limit of 0, 1 or 2 requests a minute, and with a Stripe key
Envs ==
    {[NoEnv EXCEPT !.HE_API_KEY = auth[1], !.HE_API_KEYS_JSON = auth[2],
                   !.HE_ALLOW_NO_AUTH = auth[3], !.HE_RATE_LIMIT_PER_MIN = limit,
                   !.STRIPE_API_KEY = "sk_test"] :
        auth \in {<<"", [kind |-> "unset"], "0">>,
                  <<"", [kind |-> "unset"], "1">>,
                  <<" ", [kind |-> "junk"], "0">>,
                  <<"key1", [kind |-> "unset"], "1">>,
                  <<"", [kind |-> "list", items |-> <<"key2", " ">>], "0">>},
        limit \in {0, 1, 2}}

\* _allowed_keys
AllowedKeys ==
    LET strip(text) == IF text = " " THEN "" ELSE text
        single == strip(env.HE_API_KEY)
        multi == env.HE_API_KEYS_JSON
    IN  (IF single # "" THEN {single} ELSE {})
        \cup (IF multi.kind = "list"
              THEN {x \in SeqRange(multi.items) : strip(x) # ""} ELSE {})

\* require_api_key returns for every key, whatever is configured
RequireApiKeyOpen(x_api_key) == HttpError(200, "none")

\* require_api_key: the HTTPException it raises, status_code 200 if it returns
RequireApiKey(x_api_key) ==
    IF AllowedKeys = {}
    THEN IF env.HE_ALLOW_NO_AUTH = "1" THEN HttpError(200, "none")
         ELSE HttpError(503, "auth_not_configured")
    ELSE IF x_api_key \notin AllowedKeys THEN HttpError(401, "unauthorized")
    ELSE HttpError(200, "none")

\* while q and (now - q[0]) > 60: q.popleft()
RECURSIVE PopOld(_, _)
PopOld(q, t) ==
    IF q # <<>> /\ t - Head(q) > RateWindow THEN PopOld(Tail(q), t) ELSE q

\* the limit test as it would be if it let one more request through
RateLimitedOver(q) == Len(q) > env.HE_RATE_LIMIT_PER_MIN

\* len(q) >= _RATE_LIMIT_PER_MIN
RateLimited(q) == Len(q) >= env.HE_RATE_LIMIT_PER_MIN

\* call_next(request): the route of the path, behind its dependencies
CallNext(path, x_api_key, header, ds) ==
    IF path = <<>>
    THEN /\ resp' = [status |-> "redirect", status_code |-> 307, url |-> "/dashboard"]
         /\ UNCHANGED <<tables, loaded, pc, results, ev, runs, cursor, health, syncs>>
    ELSE IF path = <<"dashboard">>
    THEN /\ resp' = [status |-> "missing_frontend"]
         /\ UNCHANGED <<tables, loaded, pc, results, ev, runs, cursor, health, syncs>>
    ELSE IF path = <<"api", "templates", "revenue-leaks", "run">>
    THEN IF RequireApiKey(x_api_key).status_code # 200
         THEN /\ resp' = RequireApiKey(x_api_key)
              /\ UNCHANGED <<tables, loaded, pc, results, ev, runs, cursor, health, syncs>>
         ELSE /\ Logged < MaxRuns
              /\ run_revenue_leaks(header, [t \in TableNames |-> header], ds)
              /\ UNCHANGED <<cursor, health, syncs>>
    ELSE IF path = <<"api", "templates", "revenue-leaks", "contracts">>
    THEN /\ resp' = IF RequireApiKey(x_api_key).status_code # 200
                    THEN RequireApiKey(x_api_key)
                    ELSE IF get_tenant_id[header].err # "none"
                    THEN HttpError(400, get_tenant_id[header].err)
                    ELSE [status |-> "success", tenantId |-> get_tenant_id[header].tenant,
                          template |-> "revenue_leaks_v1"]
         /\ UNCHANGED <<tables, loaded, pc, results, ev, runs, cursor, health, syncs>>
    ELSE IF path = <<"api", "connectors", "stripe", "sync">>
    THEN IF RequireApiKey(x_api_key).status_code # 200
         THEN /\ resp' = RequireApiKey(x_api_key)
              /\ UNCHANGED <<tables, loaded, pc, results, ev, runs, cursor, health, syncs>>
         ELSE /\ \E c \in SyncCalls : sync_stripe(c, header, <<>>)
              /\ UNCHANGED <<tables, loaded, pc, results, ev, runs>>
    ELSE /\ resp' = HttpError(404, "Not Found")
         /\ UNCHANGED <<tables, loaded, pc, results, ev, runs, cursor, health, syncs>>

\* request_log_and_rate_limit on a request that arrives elapsed seconds after
\* the one before
Request(path, x_api_key, header, ds, elapsed) ==
    /\ req.n < MaxRequests
    /\ now' = now + elapsed
    /\ req' = [n |-> req.n + 1, path |-> path, x_api_key |-> x_api_key]
    /\ IF UnderApi(path)
       THEN \E q \in {PopOld(hits[x_api_key], now')} :
              IF RateLimited(q)
              THEN /\ hits' = [hits EXCEPT ![x_api_key] = q]
                   /\ resp' = HttpError(429, "rate_limited")
                   /\ UNCHANGED <<tables, loaded, pc, results, ev, runs, admitted,
                                  cursor, health, syncs>>
              ELSE /\ hits' = [hits EXCEPT ![x_api_key] = Append(q, now')]
                   /\ admitted' = [admitted EXCEPT ![x_api_key] = Append(@, now')]
                   /\ CallNext(path, x_api_key, header, ds)
       ELSE /\ CallNext(path, x_api_key, header, ds)
            /\ UNCHANGED <<hits, admitted>>
    /\ UNCHANGED <<trace, flights, env>>

GateInit ==
    /\ tables = NoTables
    /\ loaded = tables
    /\ pc = "load"
    /\ results = <<>>
    /\ ev = NoLocals
    /\ trace = <<>>
    /\ runs = [t \in Tenants |-> <<>>]
    /\ resp = NoResponse
    /\ env \in Envs
    /\ ServerIdle

\* the requests of two keys to /dashboard and to the contracts route, each
\* 0, 1 or 60 seconds after the one before
GateNext ==
    \E path \in {<<"dashboard">>, <<"api", "templates", "revenue-leaks", "contracts">>} :
      \E x_api_key \in {"", "key1"} : \E elapsed \in {0, 1, 60} :
        Request(path, x_api_key, "acme", "spike", elapsed)

GateSpec == GateInit /\ [][GateNext]_vars

\* the requests of every key, all at one time, to /, to /dashboard, to the run,
\* contracts and sync routes and to a path under /api that no route serves
AppNext ==
    \E path \in {<<>>, <<"dashboard">>, <<"api", "templates", "revenue-leaks", "run">>,
                  <<"api", "templates", "revenue-leaks", "contracts">>,
                  <<"api", "connectors", "stripe", "sync">>, <<"api", "unknown">>} :
      \E x_api_key \in ApiKeys :
        Request(path, x_api_key, "acme", "spike", 0)

AppSpec == GateInit /\ [][AppNext]_vars

(***************************************************************************)
(* Run requests whose six paths lie under different directories.           *)
(***************************************************************************)
\* POST /templates/revenue-leaks/run, to a server that has logged no run yet,
\* with an X-Tenant-Id header, the orders path under data/<owner> and the five
\* other paths under data/<other>; an owner "" is a path the request leaves out
PostRunPaths(header, owner, other, ds) ==
    LET scope == [t \in TableNames |-> IF t = "orders" THEN owner ELSE other]
    IN  /\ Logged = 0
        /\ run_revenue_leaks(header, scope, ds)
        /\ req' = [n |-> 1, path |-> <<"api", "templates", "revenue-leaks", "run">>,
                   x_api_key |-> "", x_tenant_id |-> header, scope |-> scope, ds |-> ds]
        /\ UNCHANGED <<trace, flights, hits, admitted, now, env, cursor, health, syncs>>

ScopeNext ==
    \E header \in Headers : \E owner, other \in Tenants \cup {""} :
      \E ds \in {"spike", "export"} :
        PostRunPaths(header, owner, other, ds)

ScopeSpec == ApiInit /\ [][ScopeNext]_vars

(***************************************************************************)
(* Properties.                                                             *)
(***************************************************************************)
Calls == 1..Len(results)
Reports == {i \in Calls : results[i].kind = "report"}
Loss(r, j) == r.signals[j].estimated_loss_usd

SignalOrder == <<"refund_spike", "sku_refund_concentration", "discount_overuse",
                 "coupon_abuse", "shipping_cost_creep", "failed_payment_recovery",
                 "dispute_chargeback", "margin_compression", "support_linked_refunds",
                 "repeat_customer_churn">>

\* the cells of a column of a loaded table
Cells(t, col) ==
    IF col \in loaded[t].cols
    THEN {loaded[t].rows[i][col] : i \in 1..Len(loaded[t].rows)}
    ELSE {}

NoRows(t) == Len(loaded[t].rows) = 0
AllTablesEmpty == \A t \in TableNames : loaded[t] = EmptyFrame

\* the loaded tables hold a non-numeric net_revenue
HasText == \E c \in Cells("orders", "net_revenue") : c.k = "text"

\* the days of the parseable timestamps of a loaded column
Days(t, col) == {c.d : c \in {x \in Cells(t, col) : x.k \in {"text", "ts"}}}
AnchorDays == Days("orders", "order_ts") \cup Days("refunds", "refund_ts")
              \cup Days("payments", "payment_ts")

\* C1: every report evaluate returns holds the ten signals in the fixed order
\* and counts ten of them; a table without rows gives zero losses for the
\* signals computed from it, not missing signals.
C1_TenSignalsFixedOrder ==
    \A i \in Reports :
        LET r == results[i]
        IN  /\ [j \in 1..Len(r.signals) |-> r.signals[j].signal_id] = SignalOrder
            /\ r.summary.signals = 10
            /\ NoRows("orders") =>
                   \A j \in {1, 3, 5, 8, 10} : Loss(r, j) = 0
            /\ NoRows("refunds") => \A j \in {1, 2, 9} : Loss(r, j) = 0
            /\ NoRows("order_lines") => Loss(r, 2) = 0
            /\ NoRows("discounts") => Loss(r, 4) = 0
            /\ NoRows("payments") => \A j \in {6, 7} : Loss(r, j) = 0
            /\ NoRows("tickets") => Loss(r, 9) = 0

\* C1 witness: a report with a loss, returned for tables of which some are empty
C1_Witness ==
    \E i \in Reports : /\ NoRows("refunds") /\ NoRows("discounts")
                       /\ Loss(results[i], 3) > 0

\* C2: with six empty tables evaluate raises nothing and returns a report
\* anchored at the current instant, with ten zero losses, net_revenue_window 0
\* and ten severities low.
C2_EmptyInputReport ==
    AllTablesEmpty =>
        \A i \in Calls :
            /\ results[i].kind = "report"
            /\ results[i].window.end \in {TsStr(c) : c \in Clocks}
            /\ results[i].summary.net_revenue_window = 0
            /\ \A j \in 1..10 : /\ Loss(results[i], j) = 0
                                /\ results[i].signals[j].severity = "low"

\* C3: every estimated_loss_usd of every report is >= 0, also for negative
\* amounts in the tables.
C3_LossesNonNegative ==
    \A i \in Reports : \A j \in 1..Len(results[i].signals) : Loss(results[i], j) >= 0

\* C4: a column missing from a table never makes evaluate fail: with numeric
\* amounts and a parseable timestamp in the tables, every call returns a report.
C4_AbsentColumnNoError ==
    (Dropped(loaded) # {} /\ ~HasText /\ AnchorDays # {}) =>
        \A i \in Calls : results[i].kind = "report"

\* C5: the only exception evaluate raises is DataCoercionError, and it raises
\* it whenever net_revenue holds a non-numeric value.
C5_OnlyDataCoercionError ==
    \A i \in Calls :
        /\ results[i].kind = "error" => results[i].type = "DataCoercionError"
        /\ HasText => results[i] = Raised("DataCoercionError")

\* C6: a call of evaluate leaves the six tables of the caller exactly as they
\* were loaded.
C6_TablesUnchanged == pc = "run" => tables = loaded

\* C7: calls of evaluate on the same tables give the same outcome, whatever
\* the clock and whether the tables are reused or read again.
C7_Deterministic == \A i, j \in Calls : results[i] = results[j]

\* C7 witness: two calls that both returned a report with a loss
C7_Witness ==
    /\ Len(results) = 2
    /\ Reports = {1, 2}
    /\ results[2].summary.total_estimated_loss_usd > 0

\* C8: the total of a report is the sum of its ten reported losses, rounded
\* to cents.
C8_TotalIsRoundedSum ==
    \A i \in Reports :
        LET r == results[i]
            S[j \in 0..Len(r.signals)] == IF j = 0 THEN 0 ELSE S[j - 1] + Loss(r, j)
        IN  r.summary.total_estimated_loss_usd = Round2(Frac(S[Len(r.signals)], 100))

\* C8 witness: a report whose total adds up two signals with a loss
C8_Witness ==
    \E i \in Reports : Loss(results[i], 3) > 0 /\ Loss(results[i], 5) > 0

\* the four sliced tables with their timestamp column, window slice and
\* baseline slice
Sliced == {<<"orders", "order_ts", "ow", "ob">>, <<"refunds", "refund_ts", "rw", "rb">>,
           <<"payments", "payment_ts", "pw", "pb">>, <<"tickets", "created_ts", "tw", "tb">>}

\* the loaded rows of table t whose timestamp is parseable and within [lo, hi),
\* as the call sees them
Within(t, col, lo, hi) ==
    SelectSeq(ToDt(loaded[t], col).rows,
              LAMBDA r : r[col].k = "ts" /\ lo <= r[col].d /\ r[col].d < hi)

HasJunk == \E q \in Sliced : \E c \in Cells(q[1], q[2]) : c.k = "junk"

\* what C9 says of the slices of a call that derived an anchor
C9_SlicesWhenAnchored ==
    ev.sliced =>
        LET sl == ev.sl
        IN  /\ sl.b_end = sl.w_start
            /\ sl.w_start = sl.anchor - 28 /\ sl.b_start = sl.anchor - 112
            /\ \A q \in Sliced :
                 IF q[2] \in loaded[q[1]].cols
                 THEN /\ sl[q[3]].rows = Within(q[1], q[2], sl.anchor - 28, sl.anchor)
                      /\ sl[q[4]].rows = Within(q[1], q[2], sl.anchor - 112, sl.anchor - 28)
                      /\ \A r \in SeqRange(sl[q[3]].rows) : r \notin SeqRange(sl[q[4]].rows)
                      /\ \A r \in SeqRange(sl[q[3]].rows) \cup SeqRange(sl[q[4]].rows) :
                            r[q[2]].k = "ts"
                 ELSE sl[q[3]] = EmptyFrame /\ sl[q[4]] = EmptyFrame

\* C9: a row is in the window slice iff anchor-28d <= ts < anchor and in the
\* baseline slice iff anchor-112d <= ts < anchor-28d; no row is in both,
\* baseline_end is the window start, a table without its timestamp column has
\* two empty slices, and a row with an unparseable timestamp is in neither
\* slice and makes no call fail.
C9_SliceSemantics ==
    /\ C9_SlicesWhenAnchored
    /\ (HasJunk /\ ~HasText /\ Dropped(loaded) = {}) =>
           \A i \in Calls : results[i].kind = "report"

\* C10: the anchor is the latest parseable timestamp of orders, refunds and
\* payments, never of tickets; it is derived whenever there is one; no row
\* dated at the anchor is in any slice, and the window revenue and the ticket
\* counts of the report count only rows dated before it.
C10_AnchorExclusive ==
    /\ (Len(results) > 0 /\ ~ev.sliced) => AnchorDays = {}
    /\ ev.sliced =>
        LET sl == ev.sl
            net == Within("orders", "order_ts", sl.anchor - 28, sl.anchor)
            S[j \in 0..Len(net)] == IF j = 0 THEN 0 ELSE S[j - 1] + net[j].net_revenue.v
        IN  /\ AnchorDays # {}
            /\ sl.anchor = SetMax(AnchorDays)
            /\ \A q \in Sliced :
                 \A r \in SeqRange(sl[q[3]].rows) \cup SeqRange(sl[q[4]].rows) :
                    r[q[2]].d # sl.anchor
            /\ \A i \in Reports :
                 /\ results[i].window.end = TsText(sl.anchor)
                 /\ "order_ts" \in loaded.orders.cols =>
                        results[i].summary.net_revenue_window
                            = Round2(Frac(S[Len(net)], 1000))
                 /\ "created_ts" \in loaded.tickets.cols =>
                      /\ results[i].signals[9].metrics.tickets_w
                            = Len(Within("tickets", "created_ts", sl.anchor - 28, sl.anchor))
                      /\ results[i].signals[9].metrics.tickets_b
                            = Len(Within("tickets", "created_ts",
                                         sl.anchor - 112, sl.anchor - 28))

\* C10 witness: a report whose anchor is the date of an order, while a ticket
\* is dated later
C10_Witness ==
    /\ ev.sliced
    /\ Reports # {}
    /\ ev.sl.anchor \in Days("orders", "order_ts")
    /\ \E d \in Days("tickets", "created_ts") : d > ev.sl.anchor

(***************************************************************************)
(* Severity and confidence of the signals of a report.                     *)
(***************************************************************************)
\* the report of the latest call, when it returned one
Last == results[Len(results)]

\* the ten losses of the latest call before rounding
RawLosses == ev.loss

\* the classifier of section 4.3, with the ratio tests cleared of the division
Classify(loss, revenue_window) ==
    LET base == IF QLt(revenue_window, Q(1)) THEN Q(1) ELSE revenue_window
    IN  IF QLe(QMul(Frac(8, 100), base), loss) \/ QLe(Q(10000), loss) THEN "high"
        ELSE IF QLe(QMul(Frac(3, 100), base), loss) \/ QLe(Q(2500), loss) THEN "medium"
        ELSE "low"

\* C11 as amended: the severity of each signal of a report is the classifier
\* of section 4.3 applied to that signal's loss before rounding and the window
\* net revenue before rounding, whatever the signal; two signals of a report
\* with equal losses before rounding carry the same severity.
C11_SeverityOfRawLoss ==
    ev.scored =>
        /\ \A j \in 1..10 :
              Last.signals[j].severity = Classify(RawLosses[j], ev.a.net_w)
        /\ \A j, k \in 1..10 :
              RawLosses[j] = RawLosses[k] =>
                  Last.signals[j].severity = Last.signals[k].severity

\* C11 witness: a report with two signals whose losses differ before rounding
\* and agree after it, one of them high and one medium
C11_Witness ==
    /\ ev.scored
    /\ \E j, k \in 1..10 :
          /\ Loss(Last, j) = Loss(Last, k)
          /\ RawLosses[j] # RawLosses[k]
          /\ Last.signals[j].severity = "high"
          /\ Last.signals[k].severity = "medium"

\* C11: each signal's severity is the classifier of section 4.3 applied to its
\* loss and the window net revenue, so two signals of a report with equal
\* estimated_loss_usd carry the same severity.
C11_EqualLossEqualSeverity ==
    ev.scored =>
        /\ \A j \in 1..10 :
              Last.signals[j].severity = Classify(RawLosses[j], ev.a.net_w)
        /\ \A j, k \in 1..10 :
              Loss(Last, j) = Loss(Last, k) =>
                  Last.signals[j].severity = Last.signals[k].severity

SeverityRank(s) == CASE s = "low" -> 0 [] s = "medium" -> 1 [] s = "high" -> 2

SeverityCalls == {i \in 1..Len(trace) : trace[i].f = "_severity"}
ConfidenceCalls == {i \in 1..Len(trace) : trace[i].f = "_confidence"}

\* C12: for a fixed revenue_window, also 0 or negative, and losses a <= b,
\* _severity(a, revenue_window) <= _severity(b, revenue_window) in the order
\* low < medium < high.
C12_SeverityMonotone ==
    \A i, j \in SeverityCalls :
        (trace[i].revenue_window = trace[j].revenue_window
            /\ QLe(trace[i].loss, trace[j].loss))
        => SeverityRank(trace[i].out) <= SeverityRank(trace[j].out)

\* C12 witness: two calls with the same negative revenue_window whose results
\* rise from low to high with the loss
C12_Witness ==
    \E i, j \in SeverityCalls :
        /\ trace[i].revenue_window = trace[j].revenue_window
        /\ QLt(trace[i].revenue_window, Q(0))
        /\ QLt(trace[i].loss, trace[j].loss)
        /\ trace[i].out = "low" /\ trace[j].out = "high"

\* clamp(0.1, 1.0, 0.6*completeness + 0.4*min(1, sample_size/1000 + 0.2)) rounded
\* to 2 decimals, in hundredths, computed in ten-thousandths (completeness is a
\* multiple of 1/2, so no sum lies halfway between two hundredths)
ExpectedConfidence(sample_size, completeness) ==
    LET sample == IF sample_size + 200 > 1000 THEN 1000 ELSE sample_size + 200
        sum == (6000 * completeness[1]) \div completeness[2] + 4 * sample
        clamped == IF sum < 1000 THEN 1000 ELSE IF sum > 10000 THEN 10000 ELSE sum
    IN  (clamped + 50) \div 100

\* C13: for sample_size >= 0, _confidence returns clamp(0.1, 1.0,
\* 0.6*completeness + 0.4*min(1, sample_size/1000 + 0.2)) rounded to 2
\* decimals, a value in [0.1, 1.0] that does not decrease when sample_size
\* grows; every signal of every report has a confidence in [0.1, 1.0].
C13_ConfidenceBounds ==
    /\ \A i \in ConfidenceCalls :
         /\ trace[i].out = ExpectedConfidence(trace[i].sample_size, trace[i].completeness)
         /\ 10 <= trace[i].out /\ trace[i].out <= 100
    /\ \A i, j \in ConfidenceCalls :
         (trace[i].completeness = trace[j].completeness
             /\ trace[i].sample_size <= trace[j].sample_size)
         => trace[i].out <= trace[j].out
    /\ \A i \in Reports : \A j \in 1..Len(results[i].signals) :
         /\ 10 <= results[i].signals[j].confidence
         /\ results[i].signals[j].confidence <= 100

\* C13 witness: next to a report, two calls with completeness 0, one clamped
\* up to 0.1 and one with more samples above it
C13_Witness ==
    /\ Reports # {}
    /\ \E i, j \in ConfidenceCalls :
         /\ trace[i].completeness = Q(0) /\ trace[j].completeness = Q(0)
         /\ trace[i].sample_size < trace[j].sample_size
         /\ trace[i].out = 10 /\ trace[j].out > 10

(***************************************************************************)
(* The heuristics, stated on the loaded tables and the report.             *)
(***************************************************************************)
\* the loaded rows of table t dated in the window and in the baseline of the
\* latest call
WRows(t, col) == Within(t, col, ev.sl.anchor - 28, ev.sl.anchor)
BRows(t, col) == Within(t, col, ev.sl.anchor - 112, ev.sl.anchor - 28)

\* the sum of a column of amounts over rows, in dollars; 0 without the column
SumOf(rows, col) ==
    LET F[i \in 0..Len(rows)] ==
            IF i = 0 THEN 0
            ELSE F[i - 1] + (IF col \in DOMAIN rows[i] THEN rows[i][col].v ELSE 0)
    IN  Frac(F[Len(rows)], 1000)

\* x / y, and 0 when y is 0
Rate(x, y) == IF y[1] = 0 THEN Q(0) ELSE Frac(x[1] * y[2], x[2] * y[1])

Pos(x) == IF x[1] < 0 THEN Q(0) ELSE x

\* refund_spike as C14 states it
ExpectedRefundSpike ==
    LET net_w == SumOf(WRows("orders", "order_ts"), "net_revenue")
        net_b == SumOf(BRows("orders", "order_ts"), "net_revenue")
        refund_w == SumOf(WRows("refunds", "refund_ts"), "refund_amount")
        refund_b == SumOf(BRows("refunds", "refund_ts"), "refund_amount")
        rate_w == Rate(refund_w, net_w)
        rate_b == Rate(refund_b, net_b)
    IN  IF QLt(QMul(Frac(12, 10), rate_b), rate_w) /\ ~QLt(refund_w, Q(500))
        THEN Pos(QSub(refund_w, QMul(rate_b, net_w)))
        ELSE Q(0)

\* window net revenue 1000, no baseline rows, one window refund of 600
RefundSpikeScenario ==
    /\ SumOf(WRows("orders", "order_ts"), "net_revenue") = Q(1000)
    /\ BRows("orders", "order_ts") = <<>> /\ BRows("refunds", "refund_ts") = <<>>
    /\ Len(WRows("refunds", "refund_ts")) = 1
    /\ SumOf(WRows("refunds", "refund_ts"), "refund_amount") = Q(600)

\* C14: the refund_spike loss is max(0, refund_w - refund_rate_b * net_w) when
\* refund_rate_w > 1.2 * refund_rate_b and refund_w >= 500, and 0 otherwise;
\* window net revenue 1000 without baseline rows and one window refund of 600
\* give the loss 600.0 with severity high.
C14_RefundSpike ==
    ev.scored =>
        /\ Loss(Last, 1) = Round2(ExpectedRefundSpike)
        /\ RefundSpikeScenario =>
               Loss(Last, 1) = 60000 /\ Last.signals[1].severity = "high"

\* C14 witness: a report for the scenario
C14_Witness == ev.scored /\ RefundSpikeScenario /\ Loss(Last, 1) = 60000

\* discount_overuse without and with the clamp at 0
ExpectedDiscountOveruse(clamped) ==
    LET gross_w == SumOf(WRows("orders", "order_ts"), "gross_revenue")
        gross_b == SumOf(BRows("orders", "order_ts"), "gross_revenue")
        rate_w == Rate(SumOf(WRows("orders", "order_ts"), "discount_amount"), gross_w)
        rate_b == Rate(SumOf(BRows("orders", "order_ts"), "discount_amount"), gross_b)
        target == IF QLt(rate_b, Frac(10, 100)) THEN Frac(10, 100) ELSE rate_b
        loss == QMul(QSub(rate_w, target), gross_w)
    IN  IF QLt(QAdd(rate_b, Frac(3, 100)), rate_w)
        THEN (IF clamped THEN Pos(loss) ELSE loss)
        ELSE Q(0)

\* window gross 1000 and discount 250 against baseline gross 1000 and discount 50
DiscountScenario ==
    /\ SumOf(WRows("orders", "order_ts"), "gross_revenue") = Q(1000)
    /\ SumOf(WRows("orders", "order_ts"), "discount_amount") = Q(250)
    /\ SumOf(BRows("orders", "order_ts"), "gross_revenue") = Q(1000)
    /\ SumOf(BRows("orders", "order_ts"), "discount_amount") = Q(50)

\* C15 as amended: the discount_overuse loss is max(0, (discount_rate_w -
\* target) * gross_w) with target = max(discount_rate_b, 0.10) whenever
\* discount_rate_w > discount_rate_b + 0.03, and 0 otherwise; the scenario
\* gives 150.0.
C15_DiscountOveruseClamped ==
    ev.scored =>
        /\ Loss(Last, 3) = Round2(ExpectedDiscountOveruse(TRUE))
        /\ DiscountScenario => Loss(Last, 3) = 15000

\* C15 witness: a report for the scenario
C15_Witness == ev.scored /\ DiscountScenario /\ Loss(Last, 3) = 15000

\* C15: the discount_overuse loss is (discount_rate_w - target) * gross_w with
\* target = max(discount_rate_b, 0.10) whenever discount_rate_w >
\* discount_rate_b + 0.03, and 0 otherwise; the scenario gives 150.0.
C15_DiscountOveruse ==
    ev.scored =>
        /\ Loss(Last, 3) = Round2(ExpectedDiscountOveruse(FALSE))
        /\ DiscountScenario => Loss(Last, 3) = 15000

\* the discount events of the window: the redemptions on orders dated in it
WindowDiscounts ==
    LET ids == {r.order_id : r \in SeqRange(WRows("orders", "order_ts"))}
    IN  SelectSeq(loaded.discounts.rows, LAMBDA r : r.order_id \in ids)

\* the sum of discount_value over the codes of events used more than 3 times
\* per distinct customer, in dollars
AbusedValue(events) ==
    LET of(c) == SelectSeq(events, LAMBDA r : r.coupon_code = c)
        users(c) == Cardinality({r.customer_id : r \in SeqRange(of(c))})
        abused == {c \in {r.coupon_code : r \in SeqRange(events)} :
                      Len(of(c)) > 3 * (IF users(c) < 1 THEN 1 ELSE users(c))}
    IN  SumOf(SelectSeq(events, LAMBDA r : r.coupon_code \in abused), "discount_value")

\* C16: coupon_abuse groups the discount events of the window by coupon_code
\* and its loss is the sum of discount_value over the codes with uses /
\* max(distinct customers, 1) > 3; events outside the window never
\* contribute, and the loss is 0 when the discounts table lacks coupon_code,
\* customer_id or discount_value.
C16_CouponAbuseOfWindow ==
    ev.scored =>
        Loss(Last, 4) =
            IF {"coupon_code", "customer_id", "discount_value"} \subseteq loaded.discounts.cols
            THEN Round2(AbusedValue(WindowDiscounts))
            ELSE 0

\* the pairs of a loaded order line and a window refund of the same order
Joined ==
    IF "order_id" \in loaded.order_lines.cols /\ "order_id" \in loaded.refunds.cols
    THEN {p \in (1..Len(loaded.order_lines.rows)) \X (1..Len(WRows("refunds", "refund_ts"))) :
             loaded.order_lines.rows[p[1]].order_id
                 = WRows("refunds", "refund_ts")[p[2]].order_id}
    ELSE {}

JoinedSkus == {loaded.order_lines.rows[p[1]].sku_id : p \in Joined}

\* the refund_amount joined to the SKUs of S, in thousandths
JoinedAmount(S) ==
    LET G[P \in SUBSET Joined] ==
            IF P = {} THEN 0
            ELSE LET p == CHOOSE x \in P : TRUE
                 IN  WRows("refunds", "refund_ts")[p[2]].refund_amount.v + G[P \ {p}]
    IN  G[{p \in Joined : loaded.order_lines.rows[p[1]].sku_id \in S}]

\* the joined refund_amount of the five SKUs with the largest sums: the largest
\* amount any five of the SKUs have (all of them when there are fewer)
TopFiveAmount ==
    LET n == IF Cardinality(JoinedSkus) < 5 THEN Cardinality(JoinedSkus) ELSE 5
        fives == {S \in SUBSET JoinedSkus : Cardinality(S) = n}
    IN  CHOOSE m \in {JoinedAmount(S) : S \in fives} :
            \A S \in fives : JoinedAmount(S) <= m

C18_SkuLossWithinRefunds ==
    ev.scored =>
        Loss(Last, 2) <= Round2(SumOf(WRows("refunds", "refund_ts"), "refund_amount"))

(***************************************************************************)
(* The run endpoint and the run logs.                                      *)
(***************************************************************************)
\* the latest response is that of a successful run
RunAnswered(r) == r.status = "success" /\ "dashboard" \in DOMAIN r

\* the place of a signal in the list the engine returned
EnginePlace(g) == CHOOSE j \in 1..Len(results[1].signals) : results[1].signals[j] = g

\* C19: the engine returns its signals unsorted and unfiltered; in the
\* response of a run allSignals is a permutation of the engine's ten signals
\* in non-increasing estimated_loss_usd order, engine order kept among equal
\* losses, topLeaks is the first ten entries of allSignals, highSeverityCount
\* counts the signals of severity high, and totalEstimatedLeakUsd and
\* netRevenueWindow are the engine's summary values.
C19_RankedByRoute ==
    RunAnswered(resp) =>
        LET engine == results[1]
            all == resp.dashboard.allSignals
            cards == resp.dashboard.summaryCards
        IN  /\ [j \in 1..Len(engine.signals) |-> engine.signals[j].signal_id] = SignalOrder
            /\ Len(all) = 10
            /\ SeqRange(all) = SeqRange(engine.signals)
            /\ \A i, j \in 1..Len(all) :
                 i < j => /\ all[i].estimated_loss_usd >= all[j].estimated_loss_usd
                          /\ all[i].estimated_loss_usd = all[j].estimated_loss_usd
                                 => EnginePlace(all[i]) < EnginePlace(all[j])
            /\ resp.dashboard.topLeaks = SubSeq(all, 1, 10)
            /\ cards.highSeverityCount
                   = Cardinality({j \in 1..10 : engine.signals[j].severity = "high"})
            /\ cards.totalEstimatedLeakUsd = engine.summary.total_estimated_loss_usd
            /\ cards.netRevenueWindow = engine.summary.net_revenue_window

\* C19 witness: a response whose first two signals have the same loss and are
\* not the first two of the engine
C19_Witness ==
    /\ RunAnswered(resp)
    /\ resp.dashboard.allSignals[1].estimated_loss_usd > 0
    /\ resp.dashboard.allSignals[1].estimated_loss_usd
           = resp.dashboard.allSignals[2].estimated_loss_usd
    /\ resp.dashboard.allSignals[1] # results[1].signals[1]

\* what a step does to the run logs, as C20 states it
AppendOnlyStep ==
    IF RunAnswered(resp') /\ runs' # runs
    THEN \E t \in Tenants :
           /\ t = resp'.tenantId
           /\ Len(runs'[t]) = Len(runs[t]) + 1
           /\ SubSeq(runs'[t], 1, Len(runs[t])) = runs[t]
           /\ runs'[t][Len(runs'[t])].tenantId = t
           /\ runs'[t][Len(runs'[t])].runTs = resp'.runTs
           /\ runs'[t][Len(runs'[t])].summaryCards = resp'.dashboard.summaryCards
           /\ \A u \in Tenants \ {t} : runs'[u] = runs[u]
    ELSE /\ runs' = runs
         /\ (resp' # resp) => ~RunAnswered(resp')

\* C20: each successful run appends exactly one entry, with its tenantId,
\* runTs and summaryCards, to the log of its tenant; no entry is ever rewritten
\* or removed, no other tenant's log changes, the runs and trend endpoints
\* change no log, and a run that fails appends nothing.
C20_RunLogAppendOnly == [][AppendOnlyStep]_vars

\* C20 witness: two entries in one log and one in the other, and a failed run
\* after them
C20_Witness ==
    /\ Len(runs["acme"]) = 2 /\ Len(runs["data"]) = 1
    /\ resp.status = "error"

(***************************************************************************)
(* The deltas of a run.                                                    *)
(***************************************************************************)
NoDeltas == [totalEstimatedLeakUsdDelta |-> None, highSeverityCountDelta |-> None,
             signalsDetectedDelta |-> None]

\* the cards of entry a minus those of entry b
CardsMinus(a, b) ==
    [totalEstimatedLeakUsdDelta |->
         a.summaryCards.totalEstimatedLeakUsd - b.summaryCards.totalEstimatedLeakUsd,
     highSeverityCountDelta |->
         a.summaryCards.highSeverityCount - b.summaryCards.highSeverityCount,
     signalsDetectedDelta |->
         a.summaryCards.signalsDetected - b.summaryCards.signalsDetected]

\* C21: the deltas a run returns are its summaryCards minus those of the entry
\* its tenant's log held last before the run's own entry was appended, and
\* all three are null when the log held none; this for runs that overlap and
\* for runs with equal runTs.
C21_DeltasFromEarlierRun ==
    \A r \in Flights :
        flights[r].pc = "done" =>
            LET log == runs[flights[r].tenant_id]
                line == flights[r].line
            IN  IF line = 1
                THEN flights[r].previous = None /\ flights[r].deltas = NoDeltas
                ELSE /\ flights[r].previous # None
                     /\ flights[r].deltas = CardsMinus(log[line], log[line - 1])

(***************************************************************************)
(* The rate limit and the authentication.                                  *)
(***************************************************************************)
\* the status code of a response
Status(r) == IF "status_code" \in DOMAIN r THEN r.status_code ELSE 200

\* the requests of times that are not older than 60 seconds at time t
Counting(times, t) == SelectSeq(times, LAMBDA x : t - x <= 60)

\* what a step that receives a request does, as C22 states it
RateLimitStep ==
    req' # req =>
        LET k == req'.x_api_key
            counted == Counting(admitted[k], now')
            limit == env.HE_RATE_LIMIT_PER_MIN
        IN  /\ IF ~UnderApi(req'.path)
               THEN /\ Status(resp') # 429
                    /\ hits' = hits
                    /\ admitted' = admitted
               ELSE IF Len(counted) >= limit
               THEN /\ Status(resp') = 429
                    /\ admitted' = admitted
                    /\ hits'[k] = counted
                    /\ UNCHANGED <<tables, loaded, pc, results, ev, runs,
                                   flights, cursor, health, syncs>>
               ELSE /\ Status(resp') # 429
                    /\ admitted'[k] = Append(admitted[k], now')
                    /\ hits'[k] = Append(counted, now')
            /\ \A key \in ApiKeys : \A i \in 1..Len(admitted'[key]) :
                 Cardinality({j \in 1..Len(admitted'[key]) :
                                 /\ admitted'[key][i] <= admitted'[key][j]
                                 /\ admitted'[key][j] <= admitted'[key][i] + 60}) <= limit

\* C22: for each X-API-Key at most HE_RATE_LIMIT_PER_MIN requests to paths
\* under /api/ are passed on within any 60 seconds; a request over the limit
\* gets 429, reaches neither the authentication nor a handler and is not
\* counted; requests older than 60 seconds no longer count; requests to other
\* paths are never limited.
C22_RateLimit == [][RateLimitStep]_vars

\* C22 witness: with a limit of 2, a key's third request is refused 60 seconds
\* after its first two
C22_Witness ==
    /\ env.HE_RATE_LIMIT_PER_MIN = 2
    /\ admitted["key1"] = <<0, 0>>
    /\ now = 60
    /\ req.n = 3 /\ req.x_api_key = "key1"
    /\ Status(resp) = 429

\* the key of a request is one of the configured keys, or no key is
\* configured and HE_ALLOW_NO_AUTH is 1
Authorized(x_api_key) ==
    \/ x_api_key \in AllowedKeys
    \/ AllowedKeys = {} /\ env.HE_ALLOW_NO_AUTH = "1"

\* no run is evaluated or logged and no sync is started
NothingHandled == UNCHANGED <<tables, loaded, pc, results, ev, runs, cursor, health, syncs>>

\* what a step that receives a request under /api does, as C23 states it
FailsClosedStep ==
    (req' # req /\ UnderApi(req'.path)) =>
        /\ ~Authorized(req'.x_api_key) => NothingHandled
        /\ (AllowedKeys = {} /\ env.HE_ALLOW_NO_AUTH # "1") => Status(resp') = 503
        /\ (AllowedKeys # {} /\ req'.x_api_key \notin AllowedKeys) => Status(resp') = 401

\* C23 as stated: no handler under /api runs unless the request's key is one
\* of the configured keys, or none is configured and HE_ALLOW_NO_AUTH is 1;
\* with no key and the flag unset every /api request gets 503, with keys a
\* missing or unknown key gets 401.
C23_FailsClosed == [][FailsClosedStep]_vars

\* the routes under /api
ApiRoutes == {<<"api", "templates", "revenue-leaks", "run">>,
              <<"api", "templates", "revenue-leaks", "contracts">>,
              <<"api", "connectors", "stripe", "sync">>}

\* the same for the requests that the rate limit passes on to a route
FailsClosedRouteStep ==
    (req' # req /\ UnderApi(req'.path)) =>
        /\ ~Authorized(req'.x_api_key) => NothingHandled
        /\ (req'.path \in ApiRoutes /\ admitted' # admitted) =>
             /\ (AllowedKeys = {} /\ env.HE_ALLOW_NO_AUTH # "1") => Status(resp') = 503
             /\ (AllowedKeys # {} /\ req'.x_api_key \notin AllowedKeys) => Status(resp') = 401

\* C23 amended: no handler under /api runs unless the request's key is one of
\* the configured keys, or none is configured and HE_ALLOW_NO_AUTH is 1; of
\* the requests that the rate limit passes on to a route under /api, every one
\* gets 503 with no key and the flag unset, and one with a missing or unknown
\* key gets 401 with keys configured.
C23_FailsClosedPastLimit == [][FailsClosedRouteStep]_vars

\* C23 witness: no key is configured, the flag is unset, and a run request
\* was answered 503 with nothing evaluated or logged
C23_Witness ==
    /\ AllowedKeys = {} /\ env.HE_ALLOW_NO_AUTH = "0"
    /\ req.n > 0 /\ req.path = <<"api", "templates", "revenue-leaks", "run">>
    /\ Status(resp) = 503
    /\ results = <<>> /\ \A t \in Tenants : runs[t] = <<>>

(***************************************************************************)
(* The tenant of a run and the paths it reads.                             *)
(***************************************************************************)
\* what a run request whose tenant id is well formed and one of whose paths
\* lacks the tenant's segment gets, as C24 states it
OutOfScopeStep ==
    LET who == get_tenant_id[req'.x_tenant_id]
    IN  (/\ who.err = "none"
         /\ \E t \in TableNames :
              ~TenantScopedPath(PathOf(req'.scope[t], req'.ds, t), who.tenant))
        => /\ resp' = HttpError(400, "path_not_tenant_scoped")
           /\ runs' = runs

\* C24: a run for tenant T in which a supplied path does not contain T as a
\* whole segment is rejected with 400 path_not_tenant_scoped, and nothing is
\* persisted.
C24_OutOfScopeRejected == [][OutOfScopeStep]_vars

\* the rest of C24: nothing is persisted unless the header is a well-formed
\* tenant id and every supplied path contains it as a segment; a missing or
\* malformed header is answered 400 with nothing read
ScopedRunStep ==
    LET who == get_tenant_id[req'.x_tenant_id]
    IN  /\ who.err # "none" =>
             /\ resp' \in {HttpError(400, "tenant_missing"), HttpError(400, "tenant_invalid")}
             /\ UNCHANGED <<tables, loaded, pc, results, ev, runs>>
        /\ runs' # runs =>
             /\ who.err = "none"
             /\ \A t \in TableNames :
                  TenantScopedPath(PathOf(req'.scope[t], req'.ds, t), who.tenant)
             /\ \E t \in {who.tenant} : \A u \in Tenants \ {t} : runs'[u] = runs[u]

ScopedRunsOnly == [][ScopedRunStep]_vars

(***************************************************************************)
(* The cursor and the health record of the Stripe connector.               *)
(***************************************************************************)
\* the value a cursor file holds for an entity
CursorOf(file, entity) == IF file.exists THEN file.data[entity] ELSE 0

\* no step lowers the stored cursor of an entity
CursorMonotoneStep ==
    \A t \in Tenants : \A e \in SeqRange(Entities) :
        CursorOf(cursor'[t], e) >= CursorOf(cursor[t], e)

\* C25: after any sequence of sync calls for a tenant, calls with a since_epoch
\* below the stored cursor and calls that overlap included, the stored cursor
\* of each entity never decreases.
C25_CursorMonotone == [][CursorMonotoneStep]_vars

\* the second half of C25: when a call completes, the stored cursor of each
\* entity is at least the largest created value the call fetched for it
SavedCoversFetchedStep ==
    \A c \in SyncCalls :
        (syncs[c].pc = "loop" /\ syncs'[c].pc = "done") =>
            \A e \in SeqRange(Entities) :
                CursorOf(cursor'[syncs[c].tenant_id], e) >= syncs[c].fetched[e]

SavedCoversFetched == [][SavedCoversFetchedStep]_vars

\* what the steps of a sync call do to the cursor file and the health record,
\* as C26 states it
SyncOutcomeStep ==
    /\ \A c \in SyncCalls :
         (syncs[c].pc = "loop" /\ syncs'[c].pc = "failed") =>
            /\ cursor' = cursor
            /\ health'[syncs[c].tenant_id].exists
            /\ health'[syncs[c].tenant_id].status = "degraded"
            /\ \/ /\ health'[syncs[c].tenant_id].last_error = <<"Expecting value">>
                  /\ resp' = HttpError(400, "invalid_configuration")
               \/ /\ health'[syncs[c].tenant_id].last_error = <<"timed out">>
                  /\ resp' = HttpError(502, "stripe_sync_failed")
    /\ \A c \in SyncCalls :
         (syncs[c].pc = "loop" /\ syncs'[c].pc = "done") =>
            /\ cursor'[syncs[c].tenant_id] = [exists |-> TRUE, data |-> syncs[c].cursor]
            /\ health'[syncs[c].tenant_id] =
                   [exists |-> TRUE, status |-> "healthy", last_error |-> <<>>]
    /\ cursor' # cursor =>
         \E c \in SyncCalls : syncs[c].pc = "loop" /\ syncs'[c].pc = "done"

\* C26: if fetching or writing an entity fails during StripeConnector.sync,
\* the exception is raised again, the call leaves the stored cursor as it was,
\* also for the entities it had completed, and the health record becomes
\* degraded with the error text; a sync that completes saves the cursor and
\* sets the health record to healthy with last_error null.
C26_FailedSyncKeepsCursor == [][SyncOutcomeStep]_vars

\* C26 witness: a call failed at its second entity after its first had moved
\* its cursor to 2; no cursor file was written and the health is degraded
C26_Witness ==
    \E c \in SyncCalls :
        /\ syncs[c].pc = "failed"
        /\ syncs[c].i = 2
        /\ syncs[c].cursor["charges"] = 2
        /\ cursor[syncs[c].tenant_id] = NoFile
        /\ health[syncs[c].tenant_id] =
               [exists |-> TRUE, status |-> "degraded", last_error |-> <<"timed out">>]
        /\ resp = HttpError(502, "stripe_sync_failed")

====
